---------------------------- MODULE Spec2Model ----------------------------
(***************************************************************************)
(* Backup and restore engine of the maas-region charm                      *)
(* (src/maas-region/src/backups.py).                                       *)
(*                                                                         *)
(* Strings that the code cuts, joins or strips (S3 paths, object keys,     *)
(* backup ids, the controller list) are sequences of tokens: a token is    *)
(* one character ("/", "p", "2", "Z", a digit, a newline "\n") or a word   *)
(* none of whose characters occurs in a path or a backup id ("backup",     *)
(* "latest", the four artifact file names, a controller id).               *)
(***************************************************************************)
EXTENDS Integers, Sequences, FiniteSets, TLC

VARIABLES
    leader,     \* self.charm.unit.is_leader()
    s3rel,      \* whether the s3 relation exists (model.get_relation)
    s3info,     \* required keys present in s3_client.get_s3_connection_info()
    rawpath,    \* the "path" value of the connection info, as configured
    uuid,       \* self.model.uuid: the cluster the unit belongs to
    dbrel,      \* whether the maas-db relation exists
    peers,      \* maas-cluster relation: -1 when absent, else number of remote units
    installed,  \* self.charm.version
    status,     \* self.charm.unit.status
    store,      \* the bucket: object key -> object
    now,        \* the time (UTC), in seconds
    idfile,     \* content of SNAP_PATH_TO_IDS
    preseeds,   \* state of the directory SNAP_PATH_TO_PRESEEDS
    images,     \* state of the directory SNAP_PATH_TO_IMAGES
    pc,         \* position of the running handler
    ev,         \* the ActionEvent of the running handler
    loc,        \* the running handler's local variables
    trace,      \* store and filesystem operations of the running handler, in order
    nbk,        \* create-backup runs past eligibility, or restore-backup actions, so far
    parked,     \* uuid, leadership and status of the leader of a second cluster
    hist,       \* the create-backup runs that went past the probe and ended, in order
    tz,         \* offset of the unit's local time from UTC, in seconds
    download,   \* the download context: its generator and its transient file
    progress    \* the ProgressPercentage of one transfer, its callers and its log

cfgVars == <<leader, s3rel, s3info, rawpath, uuid, dbrel, peers, installed, parked>>
fsVars == <<idfile, preseeds, images>>
xferVars == <<download, progress>>
vars == <<leader, s3rel, s3info, rawpath, uuid, dbrel, peers, installed, status,
          store, now, idfile, preseeds, images, pc, ev, loc, trace, nbk, parked,
          hist, tz, download, progress>>

---------------------------------------------------------------------------
(* Bounds of the model *)

\* the clock takes the values 0..MaxClock
MaxClock == 1
\* create-backup runs that pass the eligibility check
MaxBackups == 2
\* remote units of the maas-cluster relation: 0..MaxPeers
MaxPeers == 1
\* restore-backup actions in one behaviour
MaxRestores == 1
\* characters of a configured path
MaxPathLen == 4

\* a transfer is of 0, MaxAmount or MaxSize bytes
MaxSize == 30

\* one report is of 1..MaxAmount bytes
MaxAmount == 4

\* the callback of a transfer is invoked at most MaxCalls times
MaxCalls == 3

\* the callback of a transfer is invoked from the threads 1..MaxThreads
MaxThreads == 2

---------------------------------------------------------------------------
(* String operations on token sequences *)

WS == {" "}
SLASH == {"/"}

CharsOf(s) == {s[i] : i \in 1..Len(s)}

RECURSIVE LStrip(_, _)
LStrip(s, chars) ==
    IF s # <<>> /\ Head(s) \in chars THEN LStrip(Tail(s), chars) ELSE s

RECURSIVE RStrip(_, _)
RStrip(s, chars) ==
    IF s # <<>> /\ s[Len(s)] \in chars
    THEN RStrip(SubSeq(s, 1, Len(s) - 1), chars)
    ELSE s

Strip(s, chars) == RStrip(LStrip(s, chars), chars)

StartsWith(s, p) == Len(s) >= Len(p) /\ SubSeq(s, 1, Len(p)) = p

RemovePrefix(s, p) == IF StartsWith(s, p) THEN SubSeq(s, Len(p) + 1, Len(s)) ELSE s

\* os.path.join(a, b)
PathJoin(a, b) ==
    IF b # <<>> /\ Head(b) = "/" THEN b
    ELSE IF a = <<>> \/ a[Len(a)] = "/" THEN a \o b
    ELSE a \o <<"/">> \o b

\* index of the first token c of s, 0 when there is none
RECURSIVE IndexOf(_, _, _)
IndexOf(s, c, i) ==
    IF i > Len(s) THEN 0 ELSE IF s[i] = c THEN i ELSE IndexOf(s, c, i + 1)

\* str.split(sep): the pieces between the separators (one empty piece for "")
RECURSIVE Split(_, _)
Split(s, sep) ==
    LET i == IndexOf(s, sep, 1) IN
    IF i = 0 THEN <<s>>
    ELSE <<SubSeq(s, 1, i - 1)>> \o Split(SubSeq(s, i + 1, Len(s)), sep)

\* sep.join(parts)
RECURSIVE Join(_, _)
Join(parts, sep) ==
    IF parts = <<>> THEN <<>>
    ELSE IF Len(parts) = 1 THEN parts[1]
    ELSE parts[1] \o <<sep>> \o Join(Tail(parts), sep)

Range(s) == {s[i] : i \in 1..Len(s)}

---------------------------------------------------------------------------
(* Names fixed by the code *)

METADATA_PATH == <<"backup", "/", "latest">>
MODEL_UUID_FILENAME == <<"model-uuid.txt">>
METADATA_FILENAME == <<"backup_metadata.json">>
CONTROLLER_LIST_FILENAME == <<"controllers.txt">>
IMAGE_TAR_FILENAME == <<"image-storage.tar.gz">>
PRESEED_TAR_FILENAME == <<"preseeds.tar.gz">>

FAILED_TO_ACCESS_CREATE_BUCKET_ERROR_MESSAGE ==
    "failed to access/create the bucket, check your S3 settings"
S3_BLOCK_MESSAGES == {FAILED_TO_ACCESS_CREATE_BUCKET_ERROR_MESSAGE}

\* an action failure message: msg_prefix, text and the value formatted into it
Msg(prefix, text, arg) == [prefix |-> prefix, text |-> text, arg |-> arg]

ActiveStatus == [kind |-> "active", message |-> ""]
BlockedStatus(m) == [kind |-> "blocked", message |-> m]
MaintenanceStatus(m) == [kind |-> "maintenance", message |-> m]

\* charm.is_blocked
is_blocked == status.kind = "blocked"

---------------------------------------------------------------------------
(* Objects of the store *)

NoVersion == <<>>

MetaObj(success, version) ==
    [kind |-> "meta", success |-> success, version |-> version, body |-> <<>>,
     size |-> 1, by |-> uuid]
TextObj(body) ==
    [kind |-> "text", success |-> FALSE, version |-> NoVersion, body |-> body,
     size |-> Len(body), by |-> uuid]
TarObj(content) ==
    [kind |-> "tar", success |-> FALSE, version |-> NoVersion, body |-> <<content>>,
     size |-> 1, by |-> uuid]

Put(st, key, obj) ==
    [k \in DOMAIN st \cup {key} |-> IF k = key THEN obj ELSE st[k]]

EmptyStore == [k \in {} |-> TextObj(<<>>)]

---------------------------------------------------------------------------
(* Inputs of the model *)

\* configured "path" values: absent (the default), "/p/" and "2"
RawPaths == {<<>>, <<"/", "p", "/">>, <<"2">>}

\* controller system ids, in sort order
ControllerIds == <<"c1", "c2">>

\* answers of charm.get_region_system_ids(): a set of ids, or CalledProcessError
RegionOutcomes ==
    {[ok |-> FALSE, ids |-> {}], [ok |-> TRUE, ids |-> {}],
     [ok |-> TRUE, ids |-> Range(ControllerIds)]}

\* version strings "major.minor.point": each component a string of digits
Ver(major, minor, point) == <<major, minor, point>>

---------------------------------------------------------------------------
(* S3 parameters *)

RequiredParameters == <<"bucket", "access-key", "secret-key">>

\* _retrieve_s3_parameters: the missing required parameters
MissingRequiredParameters ==
    SelectSeq(RequiredParameters, LAMBDA p : ~s3rel \/ p \notin s3info)

\* _retrieve_s3_parameters: s3_parameters["path"], stripped and normalised
S3Path == <<"/">> \o Strip(Strip(rawpath, WS), SLASH)

\* _are_backup_settings_ok
AreBackupSettingsOk ==
    IF ~s3rel
    THEN [ok |-> FALSE,
          msg |-> "Relation with s3-integrator charm missing, cannot create/restore backup.",
          arg |-> <<>>]
    ELSE IF MissingRequiredParameters # <<>>
    THEN [ok |-> FALSE, msg |-> "Missing S3 parameters", arg |-> MissingRequiredParameters]
    ELSE [ok |-> TRUE, msg |-> "", arg |-> <<>>]

\* _can_unit_perform_backup, leaving out the check of the unit's status
CanUnitPerformBackup_NoBlockCheck ==
    IF ~leader THEN [ok |-> FALSE, msg |-> "Unit is not the leader", arg |-> <<>>]
    ELSE AreBackupSettingsOk

\* _can_unit_perform_backup
CanUnitPerformBackup ==
    IF ~leader THEN [ok |-> FALSE, msg |-> "Unit is not the leader", arg |-> <<>>]
    ELSE IF is_blocked
    THEN [ok |-> FALSE, msg |-> "Unit is in a blocking state", arg |-> <<>>]
    ELSE AreBackupSettingsOk

---------------------------------------------------------------------------
(* Object keys *)

\* strftime(BACKUP_ID_FORMAT) of the clock value t: the leading digit of the
\* year, one digit of seconds and the literal Z
DigitChars == <<"0", "1", "2", "3", "4", "5", "6", "7", "8", "9">>
BackupIdOf(t) == <<"2", DigitChars[(t % 10) + 1], "Z">>

\* the value of a digit character
CharCode(c) == CHOOSE n \in 0..9 : DigitChars[n + 1] = c

\* _upload_content_to_s3 / _read_content_from_s3 with the configured path left
\* out of the key
ContentKey_NoPath(s3_path) == s3_path

\* _upload_content_to_s3 / _read_content_from_s3: the key of a relative path
ContentKey(s3_path) == LStrip(PathJoin(S3Path, s3_path), SLASH)

\* _run_backup / _run_restore: s3_path of a backup id
BackupS3Path(backup_id) ==
    LStrip(PathJoin(S3Path, <<"backup", "/">> \o backup_id), SLASH)

\* the key of one artifact of a backup
ArtifactKey(s3_path, filename) == PathJoin(s3_path, filename)

\* _list_backups: the Prefix of the listing
ListPrefix == LStrip(S3Path, SLASH) \o <<"/", "backup", "/">>

\* list_objects_v2(Prefix, Delimiter="/"): the CommonPrefixes
CommonPrefixes(prefix) ==
    {prefix \o SubSeq(RemovePrefix(k, prefix), 1, IndexOf(RemovePrefix(k, prefix), "/", 1)) :
        k \in {x \in DOMAIN store :
                 StartsWith(x, prefix) /\ IndexOf(RemovePrefix(x, prefix), "/", 1) > 0}}

\* list_objects_v2(Prefix, Delimiter="/"): the keys of Contents
ContentsKeys(prefix) ==
    {k \in DOMAIN store : StartsWith(k, prefix) /\ IndexOf(RemovePrefix(k, prefix), "/", 1) = 0}

\* _list_backups: the backup ids, each cut out of its common prefix
ListedBackupIds ==
    {RStrip(LStrip(cp, CharsOf(ListPrefix)), SLASH) : cp \in CommonPrefixes(ListPrefix)}

---------------------------------------------------------------------------
(* Catalog *)

Base == 1024

RECURSIVE FloorLog(_)
FloorLog(n) == IF n < Base THEN 0 ELSE 1 + FloorLog(n \div Base)

RECURSIVE Pow(_, _)
Pow(b, e) == IF e = 0 THEN 1 ELSE b * Pow(b, e - 1)

\* as_size(size) for size > 0: the power of 1024 and the value in tenths,
\* rounded; as_size(0) raises ValueError (math.log(0))
as_size(size) ==
    LET power == FloorLog(size)
        unit == Pow(Base, power)
    IN [power |-> power, tenths |-> (20 * size + unit) \div (2 * unit)]

RECURSIVE SumSizes(_)
SumSizes(keys) ==
    IF keys = {} THEN 0
    ELSE LET k == CHOOSE x \in keys : TRUE IN store[k].size + SumSizes(keys \ {k})

\* _read_content_from_s3: the object in a one-element sequence, <<>> for None
\* (no such object, or the read failed)
ReadContentFromS3(s3_path, readable) ==
    LET path == ContentKey(s3_path) IN
    IF readable /\ path \in DOMAIN store THEN <<store[path]>> ELSE <<>>

ExpectedFiles ==
    {METADATA_FILENAME, CONTROLLER_LIST_FILENAME, IMAGE_TAR_FILENAME, PRESEED_TAR_FILENAME}

\* _get_backup_details with completed taken from the metadata alone
GetBackupDetails_MetadataOnly(backup_id, readable) ==
    LET prefix == LStrip(S3Path, SLASH) \o <<"/", "backup", "/">> \o backup_id \o <<"/">>
        contents == {RemovePrefix(k, prefix) : k \in ContentsKeys(prefix)}
        total_size == SumSizes(ContentsKeys(prefix))
        md == ReadContentFromS3(<<"backup", "/">> \o backup_id \o <<"/">> \o METADATA_FILENAME,
                                readable)
        cl == ReadContentFromS3(<<"backup", "/">> \o backup_id \o <<"/">>
                                    \o CONTROLLER_LIST_FILENAME, readable)
    IN [id |-> backup_id,
        exc |-> IF total_size = 0 THEN "ValueError" ELSE "",
        size |-> IF total_size = 0 THEN [power |-> 0, tenths |-> 0] ELSE as_size(total_size),
        controller_ids |-> IF cl # <<>> /\ cl[1].body # <<>>
                           THEN Split(Strip(cl[1].body, {"\n"}), "\n") ELSE <<>>,
        completed |-> md # <<>> /\ md[1].success,
        maas_version |-> IF md # <<>> THEN md[1].version ELSE NoVersion]

\* _get_backup_details
GetBackupDetails(backup_id, readable) ==
    LET prefix == LStrip(S3Path, SLASH) \o <<"/", "backup", "/">> \o backup_id \o <<"/">>
        contents == {RemovePrefix(k, prefix) : k \in ContentsKeys(prefix)}
        total_size == SumSizes(ContentsKeys(prefix))
        complete_files == contents = ExpectedFiles
        md == ReadContentFromS3(<<"backup", "/">> \o backup_id \o <<"/">> \o METADATA_FILENAME,
                                readable)
        cl == ReadContentFromS3(<<"backup", "/">> \o backup_id \o <<"/">>
                                    \o CONTROLLER_LIST_FILENAME, readable)
    IN [id |-> backup_id,
        exc |-> IF total_size = 0 THEN "ValueError" ELSE "",
        size |-> IF total_size = 0 THEN [power |-> 0, tenths |-> 0] ELSE as_size(total_size),
        controller_ids |-> IF cl # <<>> /\ cl[1].body # <<>>
                           THEN Split(Strip(cl[1].body, {"\n"}), "\n") ELSE <<>>,
        completed |-> (md # <<>> /\ md[1].success) /\ complete_files,
        maas_version |-> IF md # <<>> THEN md[1].version ELSE NoVersion]

\* _list_backups: the records of the listed backups
ListBackups(readable) == {GetBackupDetails(b, readable) : b \in ListedBackupIds}

\* _list_backups raises when as_size does
ListBackupsRaises(readable) == \E r \in ListBackups(readable) : r.exc # ""

\* _get_backup_details: the Prefix of the listing of one backup
DetailsPrefix(backup_id) ==
    LStrip(S3Path, SLASH) \o <<"/", "backup", "/">> \o backup_id \o <<"/">>

\* _list_backups: the prefixes listed and the keys read, over all listed ids
ListBackupsKeys ==
    {ListPrefix} \cup UNION {
        {DetailsPrefix(b),
         ContentKey(<<"backup", "/">> \o b \o <<"/">> \o METADATA_FILENAME),
         ContentKey(<<"backup", "/">> \o b \o <<"/">> \o CONTROLLER_LIST_FILENAME)} :
        b \in ListedBackupIds}

\* _run_restore: the keys that the restore of a backup id downloads
RestoreKeys(backup_id) == {ArtifactKey(BackupS3Path(backup_id), f) : f \in ExpectedFiles}

---------------------------------------------------------------------------
(* The running handler *)

Ev0(kind) ==
    [kind |-> kind, failmsgs |-> <<>>, results |-> <<>>, exc |-> "", table |-> {},
     rows |-> <<>>]

Loc0 ==
    [backup_id |-> <<>>, s3_path |-> <<>>, regions |-> <<>>, raised |-> "",
     backup_success |-> FALSE, metadata_success |-> FALSE,
     controller_id |-> <<>>, readable |-> TRUE, steps |-> <<>>, before |-> <<>>]

\* no download context has been entered
NoDownload == [state |-> "none", s3_path |-> <<>>, tmp_path |-> FALSE]

\* the float 0.0
FZero == [e |-> 0, m |-> <<>>]

Threads == 1..MaxThreads

\* a thread that is not in the callback
IdleCaller == [pc |-> "idle", bytes_amount |-> 0, seen |-> 0]

\* a ProgressPercentage as constructed, before its size is set, with the
\* threads that will call it; reported is the sum of the amounts passed to
\* it, calls their number, overlapped whether a call was made during another,
\* lines the number of log lines, last_line the last of them, and logged_seen
\* the cumulative count that line was computed from
NoProgress ==
    [size |-> 0, seen_so_far |-> 0, last_percentage |-> FZero, lock |-> 0,
     callers |-> [t \in Threads |-> IdleCaller],
     reported |-> 0, calls |-> 0, overlapped |-> FALSE,
     lines |-> 0, last_line |-> <<>>, logged_seen |-> 0]

Fail(e, m) == [e EXCEPT !.failmsgs = Append(@, m)]

Op(op, key, val) == [op |-> op, key |-> key, val |-> val]

REFER_TO_DEBUG_LOG == " Please check the juju debug-log for more details."

\* the message that the action finally fails with: that of the last event.fail
FailureMessage == IF ev.failmsgs = <<>> THEN Msg("", "", <<>>) ELSE ev.failmsgs[Len(ev.failmsgs)]

---------------------------------------------------------------------------
(* create-backup: _on_create_backup_action, one action per step *)

\* the eligibility check; a unit that may not back up fails twice, with the
\* prefixed and then with the plain validation message
CreateBackupEligibility ==
    /\ pc = "idle"
    /\ LET v == CanUnitPerformBackup IN
       IF ~v.ok
       THEN /\ ev' = Fail(Fail(Ev0("create-backup"), Msg("Backup failed", v.msg, v.arg)),
                          Msg("", v.msg, v.arg))
            /\ pc' = "done"
            /\ nbk' = nbk
       ELSE /\ nbk < MaxBackups
            /\ ev' = Ev0("create-backup")
            /\ pc' = "cb_probe"
            /\ nbk' = nbk + 1
    /\ loc' = Loc0
    /\ trace' = <<>>
    /\ UNCHANGED <<cfgVars, xferVars, fsVars, status, store, now, hist, tz>>

\* _on_create_backup_action entering "creating backup" before the probe
CreateBackupProbe_StatusFirst(ok) ==
    /\ pc = "cb_probe"
    /\ status' = MaintenanceStatus("creating backup")
    /\ IF ok
       THEN /\ store' = Put(store, ContentKey(METADATA_PATH),
                            TextObj(<<"requested">>))
            /\ trace' = trace \o <<Op("status", <<>>, "creating backup"),
                                   Op("put", ContentKey(METADATA_PATH), "")>>
            /\ pc' = "cb_id"
            /\ ev' = ev
       ELSE /\ ev' = Fail(ev, Msg("", "Failed to upload metadata to provided S3."
                                      \o REFER_TO_DEBUG_LOG, <<>>))
            /\ trace' = Append(trace, Op("status", <<>>, "creating backup"))
            /\ pc' = "done"
            /\ store' = store
    /\ UNCHANGED <<cfgVars, xferVars, fsVars, now, loc, nbk, hist, tz>>

\* the credential probe: _upload_content_to_s3(metadata, METADATA_PATH)
CreateBackupProbe(ok) ==
    /\ pc = "cb_probe"
    /\ IF ok
       THEN /\ store' = Put(store, ContentKey(METADATA_PATH),
                            TextObj(<<"requested">>))
            /\ trace' = trace \o <<Op("put", ContentKey(METADATA_PATH), ""),
                                   Op("status", <<>>, "creating backup")>>
            /\ status' = MaintenanceStatus("creating backup")
            /\ pc' = "cb_id"
            /\ ev' = ev
       ELSE /\ ev' = Fail(ev, Msg("", "Failed to upload metadata to provided S3."
                                      \o REFER_TO_DEBUG_LOG, <<>>))
            /\ pc' = "done"
            /\ UNCHANGED <<store, trace, status>>
    /\ UNCHANGED <<cfgVars, xferVars, fsVars, now, loc, nbk, hist, tz>>

\* _run_backup: _generate_backup_id and s3_path
GenerateBackupId ==
    /\ pc = "cb_id"
    /\ loc' = [loc EXCEPT !.backup_id = BackupIdOf(now + tz),
                          !.s3_path = BackupS3Path(BackupIdOf(now + tz))]
    /\ pc' = "cb_regions"
    /\ UNCHANGED <<cfgVars, xferVars, fsVars, status, store, now, ev, trace, nbk, hist, tz>>

\* _execute_backup_to_s3: an exception of _backup_maas_to_s3 fails the action
\* and makes the backup unsuccessful
BackupRaised(name) ==
    /\ ev' = Fail(ev, Msg("", "Failed to backup to S3 bucket, path" \o REFER_TO_DEBUG_LOG,
                          loc.s3_path))
    /\ loc' = [loc EXCEPT !.raised = name, !.backup_success = FALSE]
    /\ pc' = "cb_meta"
    /\ UNCHANGED <<store, trace>>

\* _backup_maas_to_s3 with the controller list uploaded although the
\* enumeration failed
RetrieveRegionIds_UploadAnyway(out) ==
    /\ pc = "cb_regions"
    /\ IF out.ok
       THEN /\ loc' = [loc EXCEPT !.regions =
                          SelectSeq(ControllerIds, LAMBDA c : c \in out.ids)]
            /\ pc' = "cb_up_regions"
            /\ UNCHANGED <<ev, store, trace>>
       ELSE /\ store' = Put(store, ArtifactKey(loc.s3_path, CONTROLLER_LIST_FILENAME),
                            TextObj(<<>>))
            /\ trace' = Append(trace, Op("put", ArtifactKey(loc.s3_path,
                                                   CONTROLLER_LIST_FILENAME), ""))
            /\ ev' = Fail(ev, Msg("", "Failed to backup to S3 bucket, path"
                                       \o REFER_TO_DEBUG_LOG, loc.s3_path))
            /\ loc' = [loc EXCEPT !.raised = "RegionsNotAvailableError",
                                  !.backup_success = FALSE]
            /\ pc' = "cb_meta"
    /\ UNCHANGED <<cfgVars, xferVars, fsVars, status, now, nbk, hist, tz>>

\* _backup_maas_to_s3: charm.get_region_system_ids() and sorted(regions)
RetrieveRegionIds(out) ==
    /\ pc = "cb_regions"
    /\ IF out.ok
       THEN /\ loc' = [loc EXCEPT !.regions =
                          SelectSeq(ControllerIds, LAMBDA c : c \in out.ids)]
            /\ pc' = "cb_up_regions"
            /\ UNCHANGED <<ev, store, trace>>
       ELSE BackupRaised("RegionsNotAvailableError")
    /\ UNCHANGED <<cfgVars, xferVars, fsVars, status, now, nbk, hist, tz>>

\* one client.upload_file of _backup_maas_to_s3, the run going on to the next
\* upload after a failed one
UploadArtifact_Continue(ok, here, filename, obj, next) ==
    /\ pc = here
    /\ IF ok
       THEN /\ store' = Put(store, ArtifactKey(loc.s3_path, filename), obj)
            /\ trace' = Append(trace, Op("put", ArtifactKey(loc.s3_path, filename), ""))
            /\ pc' = next
            /\ loc' = [loc EXCEPT !.backup_success = (next = "cb_meta" /\ loc.raised = "")]
            /\ ev' = ev
       ELSE /\ ev' = Fail(ev, Msg("", "Failed to backup to S3 bucket, path"
                                      \o REFER_TO_DEBUG_LOG, loc.s3_path))
            /\ loc' = [loc EXCEPT !.raised = "S3UploadFailedError", !.backup_success = FALSE]
            /\ pc' = next
            /\ UNCHANGED <<store, trace>>
    /\ UNCHANGED <<cfgVars, xferVars, fsVars, status, now, nbk, hist, tz>>

\* one client.upload_file of _backup_maas_to_s3
UploadArtifact(ok, here, filename, obj, next) ==
    /\ pc = here
    /\ IF ok
       THEN /\ store' = Put(store, ArtifactKey(loc.s3_path, filename), obj)
            /\ trace' = Append(trace, Op("put", ArtifactKey(loc.s3_path, filename), ""))
            /\ pc' = next
            /\ loc' = [loc EXCEPT !.backup_success = (next = "cb_meta")]
            /\ ev' = ev
       ELSE BackupRaised("S3UploadFailedError")
    /\ UNCHANGED <<cfgVars, xferVars, fsVars, status, now, nbk, hist, tz>>

\* the content of the archive that tarfile makes of a directory
TarOf(dir) == IF dir = "empty" THEN "emptytar" ELSE dir

\* _backup_maas_to_s3: upload the region ids
UploadRegionIds(ok) ==
    UploadArtifact(ok, "cb_up_regions", CONTROLLER_LIST_FILENAME,
                   TextObj(Join([i \in 1..Len(loc.regions) |-> <<loc.regions[i]>>], "\n")),
                   "cb_up_images")

\* _backup_maas_to_s3: archive and upload images
UploadImages(ok) ==
    UploadArtifact(ok /\ images # "absent", "cb_up_images", IMAGE_TAR_FILENAME,
                   TarObj(TarOf(images)), "cb_up_preseeds")

\* _backup_maas_to_s3: archive and upload preseeds
UploadPreseeds(ok) ==
    UploadArtifact(ok /\ preseeds # "absent", "cb_up_preseeds", PRESEED_TAR_FILENAME,
                   TarObj(TarOf(preseeds)), "cb_meta")

\* _upload_backup_metadata writing success=True whatever the backup did
BackupMetadataObj_AlwaysSuccess == MetaObj(TRUE, installed)

\* _upload_backup_metadata / _get_backup_metadata: the metadata object
BackupMetadataObj == MetaObj(loc.backup_success, installed)

\* _run_backup reporting the backup id whenever the metadata was uploaded
UploadBackupMetadata_AlwaysResult(ok) ==
    /\ pc = "cb_meta"
    /\ IF ok
       THEN /\ store' = Put(store, ArtifactKey(loc.s3_path, METADATA_FILENAME),
                            BackupMetadataObj)
            /\ trace' = trace \o <<Op("put", ArtifactKey(loc.s3_path, METADATA_FILENAME),
                                      IF BackupMetadataObj.success THEN "true" ELSE "false"),
                                   Op("status", <<>>, "active")>>
       ELSE /\ store' = store
            /\ trace' = Append(trace, Op("status", <<>>, "active"))
    /\ loc' = [loc EXCEPT !.metadata_success = ok]
    /\ ev' = IF ~ok
             THEN Fail(ev, Msg("", "Failed to upload backup metadata to S3 for backup-id"
                                   \o REFER_TO_DEBUG_LOG, loc.backup_id))
             ELSE [ev EXCEPT !.results = <<[key |-> "backups",
                                            text |-> "backup created with id",
                                            arg |-> loc.backup_id]>>]
    /\ status' = ActiveStatus
    /\ pc' = "done"
    /\ hist' = Append(hist, [id |-> loc.backup_id, at |-> now, failed |-> loc.raised # "",
                              recorded |-> ok])
    /\ UNCHANGED <<cfgVars, xferVars, fsVars, now, nbk, tz>>

\* _run_backup from _upload_backup_metadata on, and the end of the handler
UploadBackupMetadata(ok) ==
    /\ pc = "cb_meta"
    /\ IF ok
       THEN /\ store' = Put(store, ArtifactKey(loc.s3_path, METADATA_FILENAME),
                            BackupMetadataObj)
            /\ trace' = trace \o <<Op("put", ArtifactKey(loc.s3_path, METADATA_FILENAME),
                                      IF BackupMetadataObj.success THEN "true" ELSE "false"),
                                   Op("status", <<>>, "active")>>
       ELSE /\ store' = store
            /\ trace' = Append(trace, Op("status", <<>>, "active"))
    /\ loc' = [loc EXCEPT !.metadata_success = ok]
    /\ ev' = IF ~ok
             THEN Fail(ev, Msg("", "Failed to upload backup metadata to S3 for backup-id"
                                   \o REFER_TO_DEBUG_LOG, loc.backup_id))
             ELSE IF loc.backup_success
             THEN [ev EXCEPT !.results = <<[key |-> "backups",
                                            text |-> "backup created with id",
                                            arg |-> loc.backup_id]>>]
             ELSE Fail(ev, Msg("", "Failed to archive and upload MAAS files to S3."
                                   \o REFER_TO_DEBUG_LOG, <<>>))
    /\ status' = ActiveStatus
    /\ pc' = "done"
    /\ hist' = Append(hist, [id |-> loc.backup_id, at |-> now, failed |-> loc.raised # "",
                              recorded |-> ok])
    /\ UNCHANGED <<cfgVars, xferVars, fsVars, now, nbk, tz>>

---------------------------------------------------------------------------
(* list-backups, the credential events, and the environment *)

\* _generate_backup_list_output: the rows of the table
BackupListRows(readable) ==
    {[backup_id |-> b.id,
      action |-> "full backup",
      status |-> IF b.completed THEN "finished" ELSE "failed",
      version |-> b.maas_version,
      size |-> b.size,
      controllers |-> Join(b.controller_ids, ", "),
      path |-> <<"/">> \o LStrip(S3Path, SLASH) \o <<"/", "backup", "/">> \o b.id] :
        b \in ListBackups(readable)}

\* the orders in which the store can return the members of a set
Orders(S) == {o \in [1..Cardinality(S) -> S] : Range(o) = S}

\* the code point of a character of a backup id, from that of "0"
Ord(c) == IF c = "Z" THEN 42 ELSE CharCode(c)

\* a < b on Python strings of such characters
RECURSIVE IdLess(_, _)
IdLess(a, b) ==
    IF b = <<>> THEN FALSE
    ELSE IF a = <<>> THEN TRUE
    ELSE IF Head(a) = Head(b) THEN IdLess(Tail(a), Tail(b))
    ELSE Ord(Head(a)) < Ord(Head(b))

\* backup_list.sort(key=lambda x: x[0]) left out
SortById_Unsorted(rows) == rows

\* backup_list.sort(key=lambda x: x[0]): a stable sort by backup id
RECURSIVE SortById(_)
SortById(rows) ==
    IF rows = <<>> THEN <<>>
    ELSE LET sorted == SortById(SubSeq(rows, 1, Len(rows) - 1))
             x == rows[Len(rows)]
             n == Cardinality({i \in DOMAIN sorted :
                                 ~IdLess(x.backup_id, sorted[i].backup_id)})
         IN SubSeq(sorted, 1, n) \o <<x>> \o SubSeq(sorted, n + 1, Len(sorted))

\* _generate_backup_list_output: the rows of the table in their final order,
\* order being the order in which the store returned the backup prefixes
BackupList(order, readable) ==
    LET rows == BackupListRows(readable)
    IN SortById([i \in DOMAIN order |-> CHOOSE r \in rows : r.backup_id = order[i]])

\* _on_list_backups_action admitting only a unit that may create a backup
ListBackupsAction_LeaderOnly(fault, readable) ==
    /\ pc = "idle"
    /\ LET v == CanUnitPerformBackup
           e == Ev0("list-backups")
       IN IF ~v.ok THEN ev' = Fail(e, Msg("", v.msg, v.arg))
          ELSE IF fault = "BotoCoreError"
          THEN ev' = Fail(e, Msg("", "Failed to list MAAS backups with error", <<>>))
          ELSE IF fault = "ClientError" THEN ev' = [e EXCEPT !.exc = "ClientError"]
          ELSE IF ListBackupsRaises(readable) THEN ev' = [e EXCEPT !.exc = "ValueError"]
          ELSE \E order \in Orders(ListedBackupIds) :
                  ev' = [e EXCEPT !.results = <<[key |-> "backups", text |-> "table",
                                                 arg |-> <<>>]>>,
                                  !.table = BackupListRows(readable),
                                  !.rows = BackupList(order, readable)]
    /\ loc' = [Loc0 EXCEPT !.readable = readable]
    /\ trace' = <<>>
    /\ pc' = "done"
    /\ UNCHANGED <<cfgVars, xferVars, fsVars, status, store, now, nbk, hist, tz>>

\* _on_list_backups_action; fault is what the paginator raises, if anything
ListBackupsAction(fault, readable) ==
    /\ pc = "idle"
    /\ LET v == AreBackupSettingsOk
           e == Ev0("list-backups")
       IN IF ~v.ok THEN ev' = Fail(e, Msg("", v.msg, v.arg))
          ELSE IF fault = "BotoCoreError"
          THEN ev' = Fail(e, Msg("", "Failed to list MAAS backups with error", <<>>))
          ELSE IF fault = "ClientError" THEN ev' = [e EXCEPT !.exc = "ClientError"]
          ELSE IF ListBackupsRaises(readable) THEN ev' = [e EXCEPT !.exc = "ValueError"]
          ELSE \E order \in Orders(ListedBackupIds) :
                  ev' = [e EXCEPT !.results = <<[key |-> "backups", text |-> "table",
                                                 arg |-> <<>>]>>,
                                  !.table = BackupListRows(readable),
                                  !.rows = BackupList(order, readable)]
    /\ loc' = [Loc0 EXCEPT !.readable = readable]
    /\ trace' = <<>>
    /\ pc' = "done"
    /\ UNCHANGED <<cfgVars, xferVars, fsVars, status, store, now, nbk, hist, tz>>

\* _on_s3_credential_changed; out is what _create_bucket_if_not_exists does
OnS3CredentialChanged(out) ==
    /\ pc = "idle"
    /\ s3rel
    /\ ev' = IF leader /\ MissingRequiredParameters = <<>> /\ out = "ConnectTimeoutError"
             THEN [Ev0("credentials-changed") EXCEPT !.exc = out]
             ELSE Ev0("credentials-changed")
    /\ status' = IF ~leader \/ MissingRequiredParameters # <<>> \/ out = "ConnectTimeoutError"
                 THEN status
                 ELSE IF out = "ClientError"
                 THEN BlockedStatus(FAILED_TO_ACCESS_CREATE_BUCKET_ERROR_MESSAGE)
                 ELSE ActiveStatus
    /\ loc' = Loc0
    /\ trace' = <<>>
    /\ pc' = "done"
    /\ UNCHANGED <<cfgVars, xferVars, fsVars, store, now, nbk, hist, tz>>

\* _on_s3_credential_gone clearing any blocked status
OnS3CredentialGone_AnyBlock ==
    /\ pc = "idle"
    /\ s3rel
    /\ s3rel' = FALSE
    /\ status' = IF is_blocked THEN ActiveStatus ELSE status
    /\ ev' = Ev0("credentials-gone")
    /\ loc' = Loc0
    /\ trace' = <<>>
    /\ pc' = "done"
    /\ UNCHANGED <<leader, s3info, rawpath, uuid, dbrel, peers, installed, parked, fsVars,
                   xferVars, store, now, nbk, hist, tz>>

\* _on_s3_credential_gone: the s3 relation is leaving
OnS3CredentialGone ==
    /\ pc = "idle"
    /\ s3rel
    /\ s3rel' = FALSE
    /\ status' = IF is_blocked /\ status.message \in S3_BLOCK_MESSAGES
                 THEN ActiveStatus ELSE status
    /\ ev' = Ev0("credentials-gone")
    /\ loc' = Loc0
    /\ trace' = <<>>
    /\ pc' = "done"
    /\ UNCHANGED <<leader, s3info, rawpath, uuid, dbrel, peers, installed, parked, fsVars,
                   xferVars, store, now, nbk, hist, tz>>

\* the handler has returned to the dispatcher
Return ==
    /\ pc = "done"
    /\ pc' = "idle"
    /\ ev' = Ev0("")
    /\ loc' = Loc0
    /\ trace' = <<>>
    /\ UNCHANGED <<cfgVars, xferVars, fsVars, status, store, now, nbk, hist, tz>>

\* a second passes
Tick ==
    /\ pc = "idle"
    /\ now < MaxClock
    /\ now' = now + 1
    /\ UNCHANGED <<cfgVars, xferVars, fsVars, status, store, pc, ev, loc, trace, nbk, hist, tz>>

---------------------------------------------------------------------------
(* The backup side of the engine *)

\* the leader of a second cluster, after its credentials-changed event
OtherCluster == [uuid |-> "B", leader |-> TRUE, status |-> ActiveStatus]

InstalledVersion == Ver(<<"3">>, <<"6">>, <<"1">>)

Init ==
    /\ leader \in BOOLEAN
    /\ s3rel \in BOOLEAN
    /\ s3info \in {Range(RequiredParameters), {"bucket", "access-key"}}
    /\ rawpath \in RawPaths
    /\ uuid = "A"
    /\ dbrel = FALSE
    /\ peers = 0
    /\ installed = InstalledVersion
    /\ status \in {ActiveStatus, BlockedStatus(FAILED_TO_ACCESS_CREATE_BUCKET_ERROR_MESSAGE),
                   BlockedStatus("other")}
    /\ store = EmptyStore
    /\ now = 0
    /\ idfile = <<"c0", "\n">>
    /\ preseeds = "files"
    /\ images = "files"
    /\ pc = "idle"
    /\ ev = Ev0("")
    /\ loc = Loc0
    /\ trace = <<>>
    /\ nbk = 0
    /\ parked = OtherCluster
    /\ hist = <<>>
    /\ tz = 0
    /\ download = NoDownload
    /\ progress = NoProgress

CreateBackupStep ==
    \/ CreateBackupEligibility
    \/ \E ok \in BOOLEAN : CreateBackupProbe(ok)
    \/ GenerateBackupId
    \/ \E out \in RegionOutcomes : RetrieveRegionIds(out)
    \/ \E ok \in BOOLEAN : UploadRegionIds(ok)
    \/ \E ok \in BOOLEAN : UploadImages(ok)
    \/ \E ok \in BOOLEAN : UploadPreseeds(ok)
    \/ \E ok \in BOOLEAN : UploadBackupMetadata(ok)

Next ==
    \/ CreateBackupStep
    \/ \E fault \in {"", "BotoCoreError", "ClientError"}, readable \in BOOLEAN :
          ListBackupsAction(fault, readable)
    \/ \E out \in {"ok", "ClientError", "ConnectTimeoutError"} : OnS3CredentialChanged(out)
    \/ OnS3CredentialGone
    \/ Return
    \/ Tick

Spec == Init /\ [][Next]_vars

---------------------------------------------------------------------------
(* Two clusters on one bucket and path *)

\* the next event is dispatched to the leader of the other cluster, which has
\* the same storage settings: the two units change places
SwitchCluster ==
    /\ pc = "idle"
    /\ uuid' = parked.uuid
    /\ leader' = parked.leader
    /\ status' = parked.status
    /\ parked' = [uuid |-> uuid, leader |-> leader, status |-> status]
    /\ UNCHANGED <<s3rel, s3info, rawpath, dbrel, peers, installed, fsVars, store, now,
                   pc, ev, loc, trace, nbk, hist, tz, xferVars>>

NextShared ==
    \/ Next
    \/ SwitchCluster

SpecShared == Init /\ [][NextShared]_vars

---------------------------------------------------------------------------
(* The backup side on a unit whose local time is not UTC *)

\* the offsets that the unit's local time takes
ZoneOffsets == {0, 2}

\* the local time of the unit changes its offset (daylight saving, a new zone)
ZoneShift ==
    /\ pc = "idle"
    /\ tz' \in ZoneOffsets \ {tz}
    /\ UNCHANGED <<cfgVars, xferVars, fsVars, status, store, now, pc, ev, loc, trace, nbk, hist>>

InitClock ==
    /\ leader = TRUE
    /\ s3rel = TRUE
    /\ s3info = Range(RequiredParameters)
    /\ rawpath \in RawPaths
    /\ uuid = "A"
    /\ dbrel = FALSE
    /\ peers = 0
    /\ installed = InstalledVersion
    /\ status = ActiveStatus
    /\ store = EmptyStore
    /\ now = 0
    /\ idfile = <<"c0", "\n">>
    /\ preseeds = "files"
    /\ images = "files"
    /\ pc = "idle"
    /\ ev = Ev0("")
    /\ loc = Loc0
    /\ trace = <<>>
    /\ nbk = 0
    /\ parked = OtherCluster
    /\ hist = <<>>
    /\ tz \in ZoneOffsets
    /\ download = NoDownload
    /\ progress = NoProgress

NextClock ==
    \/ Next
    \/ ZoneShift

SpecClock == InitClock /\ [][NextClock]_vars

---------------------------------------------------------------------------
(* restore-backup: the version check *)

\* a < b on Python strings: by the first differing character, a proper prefix
\* being smaller
RECURSIVE StrLess(_, _)
StrLess(a, b) ==
    IF b = <<>> THEN FALSE
    ELSE IF a = <<>> THEN TRUE
    ELSE IF Head(a) = Head(b) THEN StrLess(Tail(a), Tail(b))
    ELSE CharCode(Head(a)) < CharCode(Head(b))

\* _check_backup_maas_version, from the metadata's version on: the components
\* are the strings that split(".", 2) gives, and the points are compared as
\* strings
VersionCheck(inst, backup) ==
    IF backup = NoVersion
    THEN [ok |-> FALSE, exc |-> "", msg |-> "Could not locate snap version in backup"]
    ELSE IF inst = NoVersion
    THEN [ok |-> FALSE, exc |-> "",
          msg |-> "Could not locate snap version on running MAAS instance"]
    ELSE IF Len(inst) # 3 \/ Len(backup) # 3
    THEN [ok |-> FALSE, exc |-> "ValueError", msg |-> ""]
    ELSE IF inst[1] # backup[1]
    THEN [ok |-> FALSE, exc |-> "",
          msg |-> "MAAS major version does not match backup major version"]
    ELSE IF inst[2] # backup[2]
    THEN [ok |-> FALSE, exc |-> "",
          msg |-> "MAAS minor version does not match backup minor version"]
    ELSE IF StrLess(inst[3], backup[3])
    THEN [ok |-> FALSE, exc |-> "",
          msg |-> "MAAS point version is not greater or equal to backup point version"]
    ELSE [ok |-> TRUE, exc |-> "", msg |-> ""]

---------------------------------------------------------------------------
(* restore-backup: downloads *)

\* what a download meets: fault is what download_file raises, if anything, and
\* lowspace says that the object is at least as large as the free space
DownloadOutcomes ==
    [fault : {"", "ClientError", "OSError"}, lowspace : BOOLEAN]

\* _download_file_from_s3: the object in a one-element sequence (<<>> when None
\* is yielded), the messages the action is failed with, and the operations
DownloadFileFromS3(s3_path, d) ==
    LET low == IF d.lowspace
               THEN <<Msg("Download failed", "Not enough free storage to download", s3_path)>>
               ELSE <<>>
        lowop == IF d.lowspace THEN <<Op("fail", s3_path, "Not enough free storage")>>
                 ELSE <<>>
    IN IF s3_path \notin DOMAIN store
       THEN [f |-> <<>>,
             msgs |-> <<Msg("Download failed", "Could not find object in", s3_path)>>,
             ops |-> <<Op("head", s3_path, "404")>>]
       ELSE IF d.fault = "ClientError"
       THEN [f |-> <<>>,
             msgs |-> low \o <<Msg("Download failed", "Could not read object from", s3_path)>>,
             ops |-> <<Op("head", s3_path, "ok")>> \o lowop
                        \o <<Op("get", s3_path, "ClientError")>>]
       ELSE IF d.fault # ""
       THEN [f |-> <<>>,
             msgs |-> low \o <<Msg("Download failed", "Could not read content from", s3_path)>>,
             ops |-> <<Op("head", s3_path, "ok")>> \o lowop
                        \o <<Op("get", s3_path, d.fault)>>]
       ELSE [f |-> <<store[s3_path]>>,
             msgs |-> low,
             ops |-> <<Op("head", s3_path, "ok")>> \o lowop \o <<Op("get", s3_path, "ok")>>]

FailAll(e, msgs) == [e EXCEPT !.failmsgs = @ \o msgs]

CHECK_LOG == " Check the juju debug-log for more detail."

---------------------------------------------------------------------------
(* restore-backup *)

\* _pre_restore_checks without the check of the blocked state
PreRestoreChecks_NoBlockCheck(bid, cid) ==
    IF ~AreBackupSettingsOk.ok
    THEN [ok |-> FALSE, msg |-> AreBackupSettingsOk.msg, arg |-> AreBackupSettingsOk.arg]
    ELSE IF bid = <<>>
    THEN [ok |-> FALSE, arg |-> <<>>,
          msg |-> "The 'backup-id' parameter must be specified to perform a restore"]
    ELSE IF cid = <<>>
    THEN [ok |-> FALSE, arg |-> <<>>,
          msg |-> "The 'controller-id' parameter must be specified to perform a restore"]
    ELSE IF dbrel
    THEN [ok |-> FALSE, arg |-> <<>>, msg |-> "PostgreSQL relation still exists"]
    ELSE [ok |-> TRUE, arg |-> <<>>, msg |-> ""]

\* _pre_restore_checks: the first check that rejects, if any
PreRestoreChecks(bid, cid) ==
    IF ~AreBackupSettingsOk.ok
    THEN [ok |-> FALSE, msg |-> AreBackupSettingsOk.msg, arg |-> AreBackupSettingsOk.arg]
    ELSE IF bid = <<>>
    THEN [ok |-> FALSE, arg |-> <<>>,
          msg |-> "The 'backup-id' parameter must be specified to perform a restore"]
    ELSE IF cid = <<>>
    THEN [ok |-> FALSE, arg |-> <<>>,
          msg |-> "The 'controller-id' parameter must be specified to perform a restore"]
    ELSE IF is_blocked
    THEN [ok |-> FALSE, arg |-> <<>>, msg |-> "Cluster or unit is in a blocking state"]
    ELSE IF dbrel
    THEN [ok |-> FALSE, arg |-> <<>>, msg |-> "PostgreSQL relation still exists"]
    ELSE [ok |-> TRUE, arg |-> <<>>, msg |-> ""]

\* _on_restore_backup_action with the backup id not looked up in the catalog
RestoreBackupChecks_NoLookup(bid, cid, fault, readable) ==
    /\ pc = "idle"
    /\ nbk < MaxRestores
    /\ nbk' = nbk + 1
    /\ loc' = [Loc0 EXCEPT !.backup_id = bid, !.controller_id = cid,
                           !.s3_path = BackupS3Path(bid), !.readable = readable,
                           !.before = <<idfile, preseeds, images>>]
    /\ LET v == PreRestoreChecks(bid, cid)
           e == Ev0("restore-backup")
       IN IF ~v.ok
          THEN /\ ev' = Fail(e, Msg("Restore failed", v.msg, v.arg))
               /\ pc' = "done"
               /\ UNCHANGED <<status, trace>>
          ELSE /\ ev' = e
               /\ status' = MaintenanceStatus("Restoring from backup...")
               /\ trace' = <<Op("status", <<>>, "maintenance")>>
               /\ pc' = "r_version"
    /\ UNCHANGED <<cfgVars, xferVars, fsVars, store, now, hist, tz>>

\* _on_restore_backup_action up to the call of _run_restore, and the s3_path
\* that _run_restore computes
RestoreBackupChecks(bid, cid, fault, readable) ==
    /\ pc = "idle"
    /\ nbk < MaxRestores
    /\ nbk' = nbk + 1
    /\ loc' = [Loc0 EXCEPT !.backup_id = bid, !.controller_id = cid,
                           !.s3_path = BackupS3Path(bid), !.readable = readable,
                           !.before = <<idfile, preseeds, images>>]
    /\ LET v == PreRestoreChecks(bid, cid)
           e == Ev0("restore-backup")
       IN IF ~v.ok
          THEN /\ ev' = Fail(e, Msg("Restore failed", v.msg, v.arg))
               /\ pc' = "done"
               /\ UNCHANGED <<status, trace>>
          ELSE IF fault = "BotoCoreError"
          THEN /\ ev' = Fail(e, Msg("", "Failed to retrieve backups list", <<>>))
               /\ pc' = "done"
               /\ UNCHANGED <<status, trace>>
          ELSE IF fault # ""
          THEN /\ ev' = [e EXCEPT !.exc = fault]
               /\ pc' = "done"
               /\ UNCHANGED <<status, trace>>
          ELSE IF ListBackupsRaises(readable)
          THEN /\ ev' = [e EXCEPT !.exc = "ValueError"]
               /\ pc' = "done"
               /\ UNCHANGED <<status, trace>>
          ELSE IF bid \notin {b.id : b \in ListBackups(readable)}
          THEN /\ ev' = Fail(e, Msg("", "Invalid backup-id", bid))
               /\ pc' = "done"
               /\ UNCHANGED <<status, trace>>
          ELSE /\ ev' = e
               /\ status' = MaintenanceStatus("Restoring from backup...")
               /\ trace' = <<Op("status", <<>>, "maintenance")>>
               /\ pc' = "r_version"
    /\ UNCHANGED <<cfgVars, xferVars, fsVars, store, now, hist, tz>>

\* the outcome of one step of _run_restore is recorded in loc.steps
StepDone(name, ok) == [loc EXCEPT !.steps = Append(@, [step |-> name, ok |-> ok])]

\* _run_restore: _check_backup_maas_version and the branch on its result
CheckBackupMaasVersion(d) ==
    /\ pc = "r_version"
    /\ LET dl == DownloadFileFromS3(ArtifactKey(loc.s3_path, METADATA_FILENAME), d)
           r == IF dl.f = <<>>
                THEN [ok |-> FALSE, exc |-> "", msg |-> "Could not read metadata from s3"]
                ELSE VersionCheck(installed, dl.f[1].version)
           e == FailAll(ev, dl.msgs)
       IN /\ trace' = trace \o dl.ops
          /\ IF r.exc # ""
             THEN /\ ev' = [e EXCEPT !.exc = r.exc]
                  /\ pc' = "done"
                  /\ loc' = loc
             ELSE IF ~r.ok
             THEN /\ ev' = Fail(Fail(e, Msg("Restore failed", r.msg, <<>>)),
                                Msg("", "Failed to validate MAAS version from S3 backup."
                                        \o CHECK_LOG, <<>>))
                  /\ pc' = "r_finish"
                  /\ loc' = StepDone("version", FALSE)
             ELSE /\ ev' = e
                  /\ pc' = "r_controller"
                  /\ loc' = StepDone("version", TRUE)
    /\ UNCHANGED <<cfgVars, xferVars, fsVars, status, store, now, nbk, hist, tz>>

\* _update_controller_id: the controllers of the backup's list
ControllersOf(body) == Split(Strip(body, {"\n"}), "\n")

\* _update_controller_id with the number of units not compared
UpdateControllerIdError_NoCount(f, cid) ==
    IF f = <<>> THEN "Could not read controllers list from s3"
    ELSE IF peers < 0 THEN "Could not fetch MAAS regions list"
    ELSE IF cid \in Range(ControllersOf(f[1].body)) THEN "None"
    ELSE "is not a valid ID from the controllers list"

\* _update_controller_id: None when the file is written, else the message
UpdateControllerIdError(f, cid) ==
    IF f = <<>> THEN "Could not read controllers list from s3"
    ELSE IF peers < 0 THEN "Could not fetch MAAS regions list"
    ELSE IF Len(ControllersOf(f[1].body)) # peers + 1
    THEN "The number of maas-region units does not match the expected value from the backup"
    ELSE IF cid \in Range(ControllersOf(f[1].body)) THEN "None"
    ELSE "is not a valid ID from the controllers list"

\* _run_restore with the identity file written before the list is checked
UpdateControllerId_WriteFirst(d) ==
    /\ pc = "r_controller"
    /\ LET dl == DownloadFileFromS3(ArtifactKey(loc.s3_path, CONTROLLER_LIST_FILENAME), d)
           err == UpdateControllerIdError(dl.f, loc.controller_id)
           e == FailAll(ev, dl.msgs)
       IN /\ idfile' = loc.controller_id \o <<"\n">>
          /\ IF err = "None"
             THEN /\ trace' = trace \o dl.ops \o <<Op("write", <<"maas_id">>, "")>>
                  /\ ev' = e
                  /\ pc' = "r_preseeds"
                  /\ loc' = StepDone("controller", TRUE)
             ELSE /\ trace' = trace \o dl.ops
                  /\ ev' = Fail(Fail(e, Msg("Restore failed", err, loc.controller_id)),
                                Msg("", "Failed to update maas-region IDs from S3 backup."
                                        \o CHECK_LOG, <<>>))
                  /\ pc' = "r_finish"
                  /\ loc' = StepDone("controller", FALSE)
    /\ UNCHANGED <<cfgVars, xferVars, preseeds, images, status, store, now, nbk, hist, tz>>

\* _run_restore: _update_controller_id and the branch on its result
UpdateControllerId(d) ==
    /\ pc = "r_controller"
    /\ LET dl == DownloadFileFromS3(ArtifactKey(loc.s3_path, CONTROLLER_LIST_FILENAME), d)
           err == UpdateControllerIdError(dl.f, loc.controller_id)
           e == FailAll(ev, dl.msgs)
       IN IF err = "None"
          THEN /\ idfile' = loc.controller_id \o <<"\n">>
               /\ trace' = trace \o dl.ops \o <<Op("write", <<"maas_id">>, "")>>
               /\ ev' = e
               /\ pc' = "r_preseeds"
               /\ loc' = StepDone("controller", TRUE)
          ELSE /\ idfile' = idfile
               /\ trace' = trace \o dl.ops
               /\ ev' = Fail(Fail(e, Msg("Restore failed", err, loc.controller_id)),
                             Msg("", "Failed to update maas-region IDs from S3 backup."
                                     \o CHECK_LOG, <<>>))
               /\ pc' = "r_finish"
               /\ loc' = StepDone("controller", FALSE)
    /\ UNCHANGED <<cfgVars, xferVars, preseeds, images, status, store, now, nbk, hist, tz>>

\* _pathname: the file name up to its first dot
Pathname(s3_path) ==
    LET name == s3_path[Len(s3_path)]
    IN IF name = PRESEED_TAR_FILENAME[1] THEN "preseeds"
       ELSE IF name = IMAGE_TAR_FILENAME[1] THEN "image-storage"
       ELSE name

\* what _download_and_unarchive_from_s3 meets: rm is what rmtree leaves of the
\* directory, d what the download meets, x what tarfile raises, if anything
UnarchiveOutcomes ==
    [rm : {"removed", "partial", "stuck"}, d : DownloadOutcomes,
     x : {"", "TarError", "OSError"}]

\* _download_and_unarchive_from_s3 accepting an archive that holds no files
DownloadAndUnarchiveFromS3_EmptyOk(dir, s3_path, o) ==
    LET file_type == Pathname(s3_path)
        dl == DownloadFileFromS3(s3_path, o.d)
        before == <<Op("rmtree", <<file_type>>, "removed"), Op("mkdir", <<file_type>>, "")>>
    IN IF dir # "absent" /\ o.rm # "removed"
       THEN [ok |-> FALSE,
             dir |-> IF o.rm = "stuck" THEN dir ELSE "partial",
             msgs |-> <<Msg("Untar failed", "Could not remove existing", <<file_type>>)>>,
             ops |-> <<Op("rmtree", <<file_type>>, o.rm)>>]
       ELSE IF dl.f = <<>>
       THEN [ok |-> FALSE, dir |-> "empty",
             msgs |-> dl.msgs \o <<Msg("Untar failed", "Could not read from s3",
                                       <<file_type>>)>>,
             ops |-> before \o dl.ops]
       ELSE IF o.x = "TarError"
       THEN [ok |-> FALSE, dir |-> "empty",
             msgs |-> dl.msgs \o <<Msg("Untar failed",
                                       "is not a valid .tar.gz file or is corrupted.",
                                       <<file_type>>)>>,
             ops |-> before \o dl.ops \o <<Op("extract", <<file_type>>, "TarError")>>]
       ELSE IF o.x = "OSError"
       THEN [ok |-> FALSE, dir |-> "partial",
             msgs |-> dl.msgs \o <<Msg("Untar failed", "Filesystem error while extracting",
                                       <<file_type>>)>>,
             ops |-> before \o dl.ops \o <<Op("extract", <<file_type>>, "OSError")>>]
       ELSE [ok |-> TRUE,
             dir |-> IF dl.f[1].body = <<"emptytar">> THEN "empty" ELSE dl.f[1].body[1],
             msgs |-> dl.msgs,
             ops |-> before \o dl.ops \o <<Op("extract", <<file_type>>, "ok")>>]

\* _download_and_unarchive_from_s3 on a directory in state dir: the result, the
\* directory afterwards, the messages the action is failed with, the operations
DownloadAndUnarchiveFromS3(dir, s3_path, o) ==
    LET file_type == Pathname(s3_path)
        dl == DownloadFileFromS3(s3_path, o.d)
        before == <<Op("rmtree", <<file_type>>, "removed"), Op("mkdir", <<file_type>>, "")>>
    IN IF dir # "absent" /\ o.rm # "removed"
       THEN [ok |-> FALSE,
             dir |-> IF o.rm = "stuck" THEN dir ELSE "partial",
             msgs |-> <<Msg("Untar failed", "Could not remove existing", <<file_type>>)>>,
             ops |-> <<Op("rmtree", <<file_type>>, o.rm)>>]
       ELSE IF dl.f = <<>>
       THEN [ok |-> FALSE, dir |-> "empty",
             msgs |-> dl.msgs \o <<Msg("Untar failed", "Could not read from s3",
                                       <<file_type>>)>>,
             ops |-> before \o dl.ops]
       ELSE IF o.x = "TarError"
       THEN [ok |-> FALSE, dir |-> "empty",
             msgs |-> dl.msgs \o <<Msg("Untar failed",
                                       "is not a valid .tar.gz file or is corrupted.",
                                       <<file_type>>)>>,
             ops |-> before \o dl.ops \o <<Op("extract", <<file_type>>, "TarError")>>]
       ELSE IF o.x = "OSError"
       THEN [ok |-> FALSE, dir |-> "partial",
             msgs |-> dl.msgs \o <<Msg("Untar failed", "Filesystem error while extracting",
                                       <<file_type>>)>>,
             ops |-> before \o dl.ops \o <<Op("extract", <<file_type>>, "OSError")>>]
       ELSE IF dl.f[1].body = <<"emptytar">>
       THEN [ok |-> FALSE, dir |-> "empty",
             msgs |-> dl.msgs \o <<Msg("Untar failed", "from S3 did not contain any files.",
                                       <<file_type>>)>>,
             ops |-> before \o dl.ops \o <<Op("extract", <<file_type>>, "ok")>>]
       ELSE [ok |-> TRUE, dir |-> dl.f[1].body[1], msgs |-> dl.msgs,
             ops |-> before \o dl.ops \o <<Op("extract", <<file_type>>, "ok")>>]

\* _run_restore going on to the images although the preseeds failed
RestorePreseeds_Continue(o) ==
    /\ pc = "r_preseeds"
    /\ LET r == DownloadAndUnarchiveFromS3(preseeds,
                    ArtifactKey(loc.s3_path, PRESEED_TAR_FILENAME), o)
       IN /\ preseeds' = r.dir
          /\ trace' = trace \o r.ops
          /\ loc' = StepDone("preseeds", r.ok)
          /\ pc' = "r_images"
          /\ ev' = IF r.ok
                   THEN FailAll(ev, r.msgs)
                   ELSE Fail(FailAll(ev, r.msgs),
                             Msg("", "Failed to download and extract preseeds from S3 backup."
                                     \o CHECK_LOG, <<>>))
    /\ UNCHANGED <<cfgVars, xferVars, idfile, images, status, store, now, nbk, hist, tz>>

\* _run_restore: the preseeds are downloaded and extracted
RestorePreseeds(o) ==
    /\ pc = "r_preseeds"
    /\ LET r == DownloadAndUnarchiveFromS3(preseeds,
                    ArtifactKey(loc.s3_path, PRESEED_TAR_FILENAME), o)
       IN /\ preseeds' = r.dir
          /\ trace' = trace \o r.ops
          /\ loc' = StepDone("preseeds", r.ok)
          /\ IF r.ok
             THEN /\ ev' = FailAll(ev, r.msgs)
                  /\ pc' = "r_images"
             ELSE /\ ev' = Fail(FailAll(ev, r.msgs),
                                Msg("", "Failed to download and extract preseeds from S3 backup."
                                        \o CHECK_LOG, <<>>))
                  /\ pc' = "r_finish"
    /\ UNCHANGED <<cfgVars, xferVars, idfile, images, status, store, now, nbk, hist, tz>>

\* _run_restore: the images are downloaded and extracted
RestoreImages(o) ==
    /\ pc = "r_images"
    /\ LET r == DownloadAndUnarchiveFromS3(images,
                    ArtifactKey(loc.s3_path, IMAGE_TAR_FILENAME), o)
       IN /\ images' = r.dir
          /\ trace' = trace \o r.ops
          /\ loc' = StepDone("images", r.ok)
          /\ pc' = "r_finish"
          /\ ev' = IF r.ok
                   THEN FailAll(ev, r.msgs)
                   ELSE Fail(FailAll(ev, r.msgs),
                             Msg("", "Failed to download and extract images from S3 backup."
                                     \o CHECK_LOG, <<>>))
    /\ UNCHANGED <<cfgVars, xferVars, idfile, preseeds, status, store, now, nbk, hist, tz>>

RESTORE_FINISHED == <<[key |-> "restore-status", text |-> "restore finished", arg |-> <<>>]>>

\* _on_restore_backup_action after _run_restore has returned
RestoreFinish ==
    /\ pc = "r_finish"
    /\ status' = ActiveStatus
    /\ ev' = [ev EXCEPT !.results = RESTORE_FINISHED]
    /\ trace' = Append(trace, Op("status", <<>>, "active"))
    /\ pc' = "done"
    /\ UNCHANGED <<cfgVars, xferVars, fsVars, store, now, loc, nbk, hist, tz>>

---------------------------------------------------------------------------
(* The restore side of the engine *)

\* a store that holds, under the id of second 0, the given objects of a backup;
\* an object is given as a sequence of zero or one element
StoreOf(meta, ctl, pre, img) ==
    LET at == BackupS3Path(BackupIdOf(0))
        objs == [f \in {METADATA_FILENAME, CONTROLLER_LIST_FILENAME,
                        PRESEED_TAR_FILENAME, IMAGE_TAR_FILENAME} |->
                    IF f = METADATA_FILENAME THEN meta
                    ELSE IF f = CONTROLLER_LIST_FILENAME THEN ctl
                    ELSE IF f = PRESEED_TAR_FILENAME THEN pre ELSE img]
        present == {f \in DOMAIN objs : objs[f] # <<>>}
    IN [k \in {ArtifactKey(at, f) : f \in present} |->
           objs[CHOOSE f \in present : ArtifactKey(at, f) = k][1]]

\* the controller lists that a backup can hold
ControllerLists == {<<>>, <<"c1">>, <<"c1", "\n", "c2">>}

OtherVersion == Ver(<<"3">>, <<"7">>, <<"1">>)

\* the parameters of a restore-backup action
BackupIdParams == {<<>>, BackupIdOf(0), BackupIdOf(1)}
ControllerIdParams == {<<>>, <<"c1">>, <<"c2">>}

InitRestore ==
    /\ leader = FALSE
    /\ s3rel \in BOOLEAN
    /\ s3info \in {Range(RequiredParameters), {"bucket", "access-key"}}
    /\ rawpath \in RawPaths
    /\ uuid = "A"
    /\ dbrel \in BOOLEAN
    /\ peers \in -1..MaxPeers
    /\ installed = InstalledVersion
    /\ status \in {ActiveStatus, BlockedStatus("other")}
    \* a configuration that the pre-restore checks reject never reads the
    \* store: one store stands for all of them
    /\ IF PreRestoreChecks(BackupIdOf(0), <<"c1">>).ok
       THEN \E meta \in {<<>>, <<MetaObj(TRUE, InstalledVersion)>>,
                         <<MetaObj(FALSE, InstalledVersion)>>,
                         <<MetaObj(TRUE, OtherVersion)>>},
               ctl \in {<<>>} \cup {<<TextObj(c)>> : c \in ControllerLists},
               pre \in {<<>>, <<TarObj("files")>>, <<TarObj("emptytar")>>},
               img \in {<<>>, <<TarObj("files")>>, <<TarObj("emptytar")>>} :
               store = StoreOf(meta, ctl, pre, img)
       ELSE store = StoreOf(<<MetaObj(TRUE, InstalledVersion)>>, <<TextObj(<<"c1">>)>>,
                            <<TarObj("files")>>, <<TarObj("files")>>)
    /\ now = 0
    /\ idfile = <<"c0", "\n">>
    /\ preseeds = "old"
    /\ images = "old"
    /\ pc = "idle"
    /\ ev = Ev0("")
    /\ loc = Loc0
    /\ trace = <<>>
    /\ nbk = 0
    /\ parked = OtherCluster
    /\ hist = <<>>
    /\ tz = 0
    /\ download = NoDownload
    /\ progress = NoProgress

RestoreBackupStep ==
    \/ \E bid \in BackupIdParams, cid \in ControllerIdParams,
          fault \in {"", "BotoCoreError", "ClientError"}, readable \in BOOLEAN :
          RestoreBackupChecks(bid, cid, fault, readable)
    \/ \E d \in DownloadOutcomes : CheckBackupMaasVersion(d)
    \/ \E d \in DownloadOutcomes : UpdateControllerId(d)
    \/ \E o \in UnarchiveOutcomes : RestorePreseeds(o)
    \/ \E o \in UnarchiveOutcomes : RestoreImages(o)
    \/ RestoreFinish

NextRestore ==
    \/ RestoreBackupStep
    \/ Return

SpecRestore == InitRestore /\ [][NextRestore]_vars

---------------------------------------------------------------------------
(* The restore over installed and recorded versions *)

\* version strings: three components, and one of two components
VersionStrings ==
    {Ver(<<"3">>, <<"6">>, p) : p \in {<<"0">>, <<"1">>, <<"2">>, <<"9">>, <<"1", "0">>}}
        \cup {Ver(<<"3">>, <<"0">>, <<"0">>), Ver(<<"3">>, <<"5">>, <<"1">>),
              Ver(<<"2">>, <<"6">>, <<"1">>), <<<<"3">>, <<"6">>>>}

InitVersion ==
    /\ leader = FALSE
    /\ s3rel = TRUE
    /\ s3info = Range(RequiredParameters)
    /\ rawpath = <<"/", "p", "/">>
    /\ uuid = "A"
    /\ dbrel = FALSE
    /\ peers = 0
    /\ installed \in VersionStrings \cup {NoVersion}
    /\ status = ActiveStatus
    /\ \E v \in VersionStrings \cup {NoVersion} :
          store = StoreOf(<<MetaObj(TRUE, v)>>, <<TextObj(<<"c1">>)>>,
                          <<TarObj("files")>>, <<TarObj("files")>>)
    /\ now = 0
    /\ idfile = <<"c0", "\n">>
    /\ preseeds = "old"
    /\ images = "old"
    /\ pc = "idle"
    /\ ev = Ev0("")
    /\ loc = Loc0
    /\ trace = <<>>
    /\ nbk = 0
    /\ parked = OtherCluster
    /\ hist = <<>>
    /\ tz = 0
    /\ download = NoDownload
    /\ progress = NoProgress

SpecVersion == InitVersion /\ [][NextRestore]_vars

---------------------------------------------------------------------------
(* The catalog over stores of any content *)

\* an object that no backup writes
EXTRA_FILENAME == <<"notes.txt">>

\* the objects that a backup writes for a file name
ObjectFor(f, success) ==
    IF f = METADATA_FILENAME THEN MetaObj(success, InstalledVersion)
    ELSE IF f = IMAGE_TAR_FILENAME \/ f = PRESEED_TAR_FILENAME THEN TarObj("files")
    ELSE TextObj(<<"c1">>)

\* a store that holds the files present under the prefix of backup_id
ObjectsAt(backup_id, present, success) ==
    [k \in {ArtifactKey(BackupS3Path(backup_id), f) : f \in present} |->
        ObjectFor(CHOOSE f \in present : ArtifactKey(BackupS3Path(backup_id), f) = k,
                  success)]

InitCatalog ==
    /\ leader \in BOOLEAN
    /\ s3rel \in BOOLEAN
    /\ s3info = Range(RequiredParameters)
    /\ rawpath \in RawPaths
    /\ uuid = "A"
    /\ dbrel = FALSE
    /\ peers = 0
    /\ installed = InstalledVersion
    /\ status = ActiveStatus
    /\ \E present \in SUBSET (ExpectedFiles \cup {EXTRA_FILENAME}), success \in BOOLEAN,
          other \in {{}, {METADATA_FILENAME}, ExpectedFiles} :
          store = ObjectsAt(BackupIdOf(0), present, success)
                     @@ ObjectsAt(BackupIdOf(1), other, TRUE)
    /\ now = 0
    /\ idfile = <<"c0", "\n">>
    /\ preseeds = "files"
    /\ images = "files"
    /\ pc = "idle"
    /\ ev = Ev0("")
    /\ loc = Loc0
    /\ trace = <<>>
    /\ nbk = 0
    /\ parked = OtherCluster
    /\ hist = <<>>
    /\ tz = 0
    /\ download = NoDownload
    /\ progress = NoProgress

NextCatalog ==
    \/ \E fault \in {"", "BotoCoreError", "ClientError"}, readable \in BOOLEAN :
          ListBackupsAction(fault, readable)
    \/ Return

SpecCatalog == InitCatalog /\ [][NextCatalog]_vars

---------------------------------------------------------------------------
(* The catalog over configured paths of any form *)

\* the strings of at most n characters of whitespace, slash and a letter
RECURSIVE PathsUpTo(_)
PathsUpTo(n) ==
    IF n = 0 THEN {<<>>}
    ELSE PathsUpTo(n - 1) \cup
         {Append(q, c) : q \in {x \in PathsUpTo(n - 1) : Len(x) = n - 1},
                         c \in {" ", "/", "p"}}

InitParams ==
    /\ leader \in BOOLEAN
    /\ s3rel = TRUE
    /\ s3info \in {Range(RequiredParameters), {"bucket", "access-key"}, {}}
    /\ rawpath \in PathsUpTo(MaxPathLen)
    /\ uuid = "A"
    /\ dbrel = FALSE
    /\ peers = 0
    /\ installed = InstalledVersion
    /\ status = ActiveStatus
    /\ \E success \in BOOLEAN : store = ObjectsAt(BackupIdOf(0), ExpectedFiles, success)
    /\ now = 0
    /\ idfile = <<"c0", "\n">>
    /\ preseeds = "files"
    /\ images = "files"
    /\ pc = "idle"
    /\ ev = Ev0("")
    /\ loc = Loc0
    /\ trace = <<>>
    /\ nbk = 0
    /\ parked = OtherCluster
    /\ hist = <<>>
    /\ tz = 0
    /\ download = NoDownload
    /\ progress = NoProgress

SpecParams == InitParams /\ [][NextCatalog]_vars

---------------------------------------------------------------------------
(* Backup and restore on a leader whose credentials events come and go *)

\* a leader with complete settings and a working path, not blocked, over a
\* bucket that holds one complete backup
InitBlock ==
    /\ leader = TRUE
    /\ s3rel = TRUE
    /\ s3info = Range(RequiredParameters)
    /\ rawpath = <<"/", "p", "/">>
    /\ uuid = "A"
    /\ dbrel = FALSE
    /\ peers = 0
    /\ installed = InstalledVersion
    /\ status = ActiveStatus
    /\ store = StoreOf(<<MetaObj(TRUE, InstalledVersion)>>, <<TextObj(<<"c1">>)>>,
                       <<TarObj("files")>>, <<TarObj("files")>>)
    /\ now = 0
    /\ idfile = <<"c0", "\n">>
    /\ preseeds = "old"
    /\ images = "old"
    /\ pc = "idle"
    /\ ev = Ev0("")
    /\ loc = Loc0
    /\ trace = <<>>
    /\ nbk = 0
    /\ parked = OtherCluster
    /\ hist = <<>>
    /\ tz = 0
    /\ download = NoDownload
    /\ progress = NoProgress

NextBlock ==
    \/ CreateBackupStep
    \/ RestoreBackupStep
    \/ \E out \in {"ok", "ClientError", "ConnectTimeoutError"} : OnS3CredentialChanged(out)
    \/ OnS3CredentialGone
    \/ Return

SpecBlock == InitBlock /\ [][NextBlock]_vars

---------------------------------------------------------------------------

(* The download context: _download_file_from_s3 around a caller's block *)

\* the artifact of the backup of second 0 that a caller downloads
DownloadKey(file) == ArtifactKey(BackupS3Path(BackupIdOf(0)), file)

\* the generator of _download_file_from_s3 runs to its yield: made says that
\* the client and the temporary file could be made, d is what the download
\* meets; the caller's block is entered with the path or with None
DownloadFileEnter(file, d, made) ==
    /\ pc = "idle"
    /\ download.state \in {"none", "finished"}
    /\ LET key == DownloadKey(file)
           dl == DownloadFileFromS3(key, d)
       IN IF ~made
          THEN /\ download' = [state |-> "failed", s3_path |-> key, tmp_path |-> FALSE]
               /\ ev' = Fail(Ev0("download"),
                             Msg("Download failed", "Could not read content from", key))
               /\ trace' = <<>>
          ELSE /\ download' = [state |-> IF dl.f = <<>> THEN "failed" ELSE "yielded",
                               s3_path |-> key, tmp_path |-> TRUE]
               /\ ev' = FailAll(Ev0("download"), dl.msgs)
               /\ trace' = <<Op("tmpfile", key, "")>> \o dl.ops
    /\ pc' = "dl_block"
    /\ loc' = Loc0
    /\ UNCHANGED <<cfgVars, fsVars, status, store, now, nbk, hist, tz, progress>>

\* the generator runs its finally clause: os.unlink of the temporary file
Unlinked(t) ==
    IF download.tmp_path THEN Append(t, Op("unlink", download.s3_path, "")) ELSE t

\* the caller's block is left and the context manager exits: x is the
\* exception that the block raised, if any; closes says whether the
\* context manager closes a generator that did not stop after the throw
\* (contextlib of the interpreter at hand) or leaves it to its finalization
BlockLeaves(x, closes) ==
    /\ pc = "dl_block"
    /\ IF x = "" \/ x = "KeyboardInterrupt" \/ download.state = "failed"
       THEN \* the generator resumes, or the exception passes through it: finally
            /\ download' = [download EXCEPT !.state = "finished", !.tmp_path = FALSE]
            /\ trace' = Unlinked(trace)
            /\ ev' = [ev EXCEPT !.exc = x]
       ELSE \* "except Exception" catches the block's exception and yields None
            /\ ev' = [Fail(ev, Msg("Download failed", "Could not read content from",
                                   download.s3_path))
                         EXCEPT !.exc = "RuntimeError"]
            /\ IF closes
               THEN /\ download' = [download EXCEPT !.state = "finished",
                                                    !.tmp_path = FALSE]
                    /\ trace' = Unlinked(trace)
               ELSE /\ download' = [download EXCEPT !.state = "suspended"]
                    /\ trace' = trace
    /\ pc' = "done"
    /\ loc' = loc
    /\ UNCHANGED <<cfgVars, fsVars, status, store, now, nbk, hist, tz, progress>>

\* the suspended generator is finalized: GeneratorExit at its yield, finally
GeneratorFinalized ==
    /\ download.state = "suspended"
    /\ download' = [download EXCEPT !.state = "finished", !.tmp_path = FALSE]
    /\ UNCHANGED <<cfgVars, fsVars, status, store, now, pc, ev, loc, trace, nbk, hist, tz,
                   progress>>

InitDownload ==
    /\ leader = FALSE
    /\ s3rel = TRUE
    /\ s3info = Range(RequiredParameters)
    /\ rawpath \in RawPaths
    /\ uuid = "A"
    /\ dbrel = FALSE
    /\ peers = 0
    /\ installed = InstalledVersion
    /\ status = ActiveStatus
    /\ \E meta \in {<<>>, <<MetaObj(TRUE, InstalledVersion)>>},
          ctl \in {<<>>, <<TextObj(<<"c1">>)>>},
          pre \in {<<>>, <<TarObj("files")>>},
          img \in {<<>>, <<TarObj("files")>>} :
          store = StoreOf(meta, ctl, pre, img)
    /\ now = 0
    /\ idfile = <<"c0", "\n">>
    /\ preseeds = "old"
    /\ images = "old"
    /\ pc = "idle"
    /\ ev = Ev0("")
    /\ loc = Loc0
    /\ trace = <<>>
    /\ nbk = 0
    /\ parked = OtherCluster
    /\ hist = <<>>
    /\ tz = 0
    /\ download = NoDownload
    /\ progress = NoProgress

NextDownload ==
    \/ \E file \in ExpectedFiles, d \in DownloadOutcomes, made \in BOOLEAN :
          DownloadFileEnter(file, d, made)
    \/ \E x \in {"", "Exception", "KeyboardInterrupt"}, closes \in BOOLEAN :
          BlockLeaves(x, closes)
    \/ GeneratorFinalized
    \/ Return

SpecDownload == InitDownload /\ [][NextDownload]_vars

---------------------------------------------------------------------------

(* Floating-point arithmetic of the progress percentage *)

\* a Python float (IEEE 754 binary64): zero, or a significand of Precision
\* bits, the first of them 1, and an exponent, the value being
\* 1.m[2]m[3]... times 2^e; every operation rounds to nearest, ties to even.
\* Long operations work on limbs of LimbBits bits.
Precision == 53

LimbBits == 13

Limbs == 5

Zeros(n) == [i \in 1..n |-> 0]

\* a significand that is not all ones, plus one unit in its last place
Increment(bits) ==
    LET k == CHOOSE i \in 1..Len(bits) :
                 bits[i] = 0 /\ \A j \in (i + 1)..Len(bits) : bits[j] = 1
    IN [i \in 1..Len(bits) |-> IF i < k THEN bits[i] ELSE IF i = k THEN 1 ELSE 0]

\* round the binary number 1.bits[2]bits[3]... times 2^e to Precision bits
RoundToPrecision(bits, e) ==
    IF Len(bits) <= Precision
    THEN [e |-> e, m |-> bits \o Zeros(Precision - Len(bits))]
    ELSE LET kept == SubSeq(bits, 1, Precision)
             guard == bits[Precision + 1]
             sticky == \E i \in (Precision + 2)..Len(bits) : bits[i] = 1
             up == guard = 1 /\ (sticky \/ kept[Precision] = 1)
         IN IF ~up THEN [e |-> e, m |-> kept]
            ELSE IF \A i \in 1..Precision : kept[i] = 1
            THEN [e |-> e + 1, m |-> <<1>> \o Zeros(Precision - 1)]
            ELSE [e |-> e, m |-> Increment(kept)]

\* the exponent of a / b for a >= b > 0, and for 0 < a < b
RECURSIVE ExponentUp(_, _)
ExponentUp(a, b) == IF a >= 2 * b THEN 1 + ExponentUp(a, 2 * b) ELSE 0

RECURSIVE ExponentDown(_, _)
ExponentDown(a, b) == IF a >= b THEN 0 ELSE ExponentDown(2 * a, b) - 1

\* bit i of the limbs qs, the first bit of a limb being its highest
LimbBit(qs, i) ==
    (qs[(i - 1) \div LimbBits + 1] \div 2^((LimbBits - 1) - ((i - 1) % LimbBits))) % 2

\* the remainders of the long division of r by d, one limb of quotient each
RECURSIVE Remainders(_, _, _)
Remainders(r, d, k) ==
    IF k = 0 THEN <<>>
    ELSE LET next == (r * 2^LimbBits) % d
         IN <<next>> \o Remainders(next, d, k - 1)

\* a / b for integers a >= 0 and b > 0 (true division)
TrueDiv(a, b) ==
    IF a = 0 THEN FZero
    ELSE LET e == IF a >= b THEN ExponentUp(a, b) ELSE ExponentDown(a, b)
             n == IF e >= 0 THEN a ELSE a * 2^(0 - e)
             d == IF e >= 0 THEN b * 2^e ELSE b
             rs == <<n - d>> \o Remainders(n - d, d, Limbs)
             qs == [c \in 1..Limbs |-> (rs[c] * 2^LimbBits) \div d]
             frac == [i \in 1..(Limbs * LimbBits) |-> LimbBit(qs, i)]
         IN RoundToPrecision(
                <<1>> \o frac \o <<IF rs[Limbs + 1] = 0 THEN 0 ELSE 1>>, e)

\* the bits of a small integer, the first of them 1; none for 0
RECURSIVE BitsOf(_)
BitsOf(n) == IF n = 0 THEN <<>> ELSE Append(BitsOf(n \div 2), n % 2)

\* the number of zeros a sequence of bits starts with
LeadingZeros(bits) ==
    IF \A i \in 1..Len(bits) : bits[i] = 0 THEN Len(bits)
    ELSE (CHOOSE i \in 1..Len(bits) :
              bits[i] = 1 /\ \A j \in 1..(i - 1) : bits[j] = 0) - 1

\* the value of limb c of a sequence of Limbs * LimbBits bits
LimbOf(bits, c) ==
    LET at(p) == bits[(c - 1) * LimbBits + p]
    IN at(1) * 4096 + at(2) * 2048 + at(3) * 1024 + at(4) * 512 + at(5) * 256
       + at(6) * 128 + at(7) * 64 + at(8) * 32 + at(9) * 16 + at(10) * 8
       + at(11) * 4 + at(12) * 2 + at(13)

\* the carries of the limbs ls times k, from the last limb leftwards: the
\* carry into limb c is at c + 1, the carry out of the first limb at 1
RECURSIVE Carries(_, _, _)
Carries(ls, k, c) ==
    IF c > Len(ls) THEN <<0>>
    ELSE LET lower == Carries(ls, k, c + 1)
         IN <<(ls[c] * k + lower[1]) \div 2^LimbBits>> \o lower

\* x * k for an integer k > 0
Times(x, k) ==
    IF x = FZero THEN FZero
    ELSE LET padded == Zeros(Limbs * LimbBits - Precision) \o x.m
             ls == [c \in 1..Limbs |-> LimbOf(padded, c)]
             cs == Carries(ls, k, 1)
             ps == [c \in 1..Limbs |-> (ls[c] * k + cs[c + 1]) % 2^LimbBits]
             all == BitsOf(cs[1]) \o [i \in 1..(Limbs * LimbBits) |-> LimbBit(ps, i)]
             z == LeadingZeros(all)
             p == SubSeq(all, z + 1, Len(all))
         IN RoundToPrecision(p, x.e + Len(p) - Precision)

\* x >= y: the significands decide at the first bit in which they differ
LexGE(a, b) ==
    LET differ == {i \in 1..Len(a) : a[i] # b[i]}
    IN differ = {} \/ \E i \in differ : a[i] > b[i] /\ \A j \in differ : i <= j

GE(x, y) ==
    IF y = FZero THEN TRUE
    ELSE IF x = FZero THEN FALSE
    ELSE IF x.e # y.e THEN x.e > y.e
    ELSE LexGE(x.m, y.m)

\* the bits a minus the bits b, of one length: a bit borrows when what is
\* right of it in a is less than what is right of it in b
SubBorrow(a, b) ==
    LET n == Len(a)
        borrow(i) == \E j \in (i + 1)..n :
                         a[j] < b[j] /\ \A k \in (i + 1)..(j - 1) : a[k] = b[k]
    IN [i \in 1..n |-> (a[i] - b[i] - (IF borrow(i) THEN 1 ELSE 0) + 2) % 2]

\* x - y for x >= y
Minus(x, y) ==
    IF y = FZero THEN x
    ELSE LET d == x.e - y.e
             r == SubBorrow(x.m \o Zeros(d), Zeros(d) \o y.m)
             z == LeadingZeros(r)
         IN IF z = Len(r) THEN FZero
            ELSE RoundToPrecision(SubSeq(r, z + 1, Len(r)), x.e - z)

\* float(n) of a small integer
FromInt(n) == TrueDiv(n, 1)

---------------------------------------------------------------------------

(* The progress observer of one transfer and the threads that call it *)

UpdateInterval == 10

\* (self._seen_so_far / self._size) * 100
Percentage(seen, size) == Times(TrueDiv(seen, size), 100)

\* (percentage - self._last_percentage) >= self._update_interval or
\* percentage >= 100; a difference below zero is below the interval
ShouldLog(percentage, last) ==
    \/ GE(percentage, last) /\ GE(Minus(percentage, last), FromInt(UpdateInterval))
    \/ GE(percentage, FromInt(100))

\* __call__(bytes_amount) is entered: an empty transfer is logged and the
\* call returns, any other call goes to wait for the lock
Call(t, amount) ==
    /\ progress.callers[t].pc = "idle"
    /\ progress.calls < MaxCalls
    /\ amount = 0 <=> progress.size = 0
    /\ LET others == \E u \in Threads : u # t /\ progress.callers[u].pc # "idle"
           entered == [progress EXCEPT !.reported = @ + amount, !.calls = @ + 1,
                                       !.overlapped = @ \/ others]
       IN progress' =
              IF progress.size <= 0
              THEN [entered EXCEPT !.lines = @ + 1,
                                   !.last_line = <<"100.00", "%", " (empty file)">>]
              ELSE [entered EXCEPT !.callers[t] =
                        [pc |-> "waiting", bytes_amount |-> amount, seen |-> 0]]
    /\ UNCHANGED <<cfgVars, fsVars, status, store, now, pc, ev, loc, trace, nbk,
                   hist, tz, download>>

\* the with block entered without waiting for the lock
Acquire_NoLock(t) ==
    /\ progress.callers[t].pc = "waiting"
    /\ progress' = [progress EXCEPT !.lock = t, !.callers[t].pc = "locked"]
    /\ UNCHANGED <<cfgVars, fsVars, status, store, now, pc, ev, loc, trace, nbk,
                   hist, tz, download>>

\* with self._lock: the lock is taken when no thread holds it
Acquire(t) ==
    /\ progress.callers[t].pc = "waiting"
    /\ progress.lock = 0
    /\ progress' = [progress EXCEPT !.lock = t, !.callers[t].pc = "locked"]
    /\ UNCHANGED <<cfgVars, fsVars, status, store, now, pc, ev, loc, trace, nbk,
                   hist, tz, download>>

\* self._seen_so_far += bytes_amount: the count is read
Load(t) ==
    /\ progress.callers[t].pc = "locked"
    /\ progress' = [progress EXCEPT !.callers[t].pc = "loaded",
                                    !.callers[t].seen = progress.seen_so_far]
    /\ UNCHANGED <<cfgVars, fsVars, status, store, now, pc, ev, loc, trace, nbk,
                   hist, tz, download>>

\* self._seen_so_far += bytes_amount: the sum is written
Store(t) ==
    /\ progress.callers[t].pc = "loaded"
    /\ progress' =
           [progress EXCEPT !.callers[t].pc = "stored",
                            !.seen_so_far = progress.callers[t].seen
                                            + progress.callers[t].bytes_amount]
    /\ UNCHANGED <<cfgVars, fsVars, status, store, now, pc, ev, loc, trace, nbk,
                   hist, tz, download>>

\* the percentage is computed and compared, the line is logged, and the
\* lock is released on leaving the with block
Report(t) ==
    /\ progress.callers[t].pc = "stored"
    /\ LET percentage == Percentage(progress.seen_so_far, progress.size)
           left == [progress EXCEPT !.lock = 0, !.callers[t] = IdleCaller]
       IN progress' =
              IF ShouldLog(percentage, progress.last_percentage)
              THEN [left EXCEPT !.last_percentage = percentage,
                                !.lines = @ + 1,
                                !.last_line = <<percentage, "%">>,
                                !.logged_seen = progress.seen_so_far]
              ELSE left
    /\ UNCHANGED <<cfgVars, fsVars, status, store, now, pc, ev, loc, trace, nbk,
                   hist, tz, download>>

\* Upload/DownloadProgressPercentage.__init__ has set the size
InitProgress ==
    /\ leader = FALSE
    /\ s3rel = TRUE
    /\ s3info = Range(RequiredParameters)
    /\ rawpath = <<>>
    /\ uuid = "A"
    /\ dbrel = FALSE
    /\ peers = 0
    /\ installed = InstalledVersion
    /\ status = ActiveStatus
    /\ store = << >>
    /\ now = 0
    /\ idfile = <<"c0", "\n">>
    /\ preseeds = "old"
    /\ images = "old"
    /\ pc = "idle"
    /\ ev = Ev0("")
    /\ loc = Loc0
    /\ trace = <<>>
    /\ nbk = 0
    /\ parked = OtherCluster
    /\ hist = <<>>
    /\ tz = 0
    /\ download = NoDownload
    /\ \E size \in {0, MaxAmount, MaxSize} :
          progress = [NoProgress EXCEPT !.size = size]

NextProgress ==
    \/ \E t \in Threads, amount \in 0..MaxAmount : Call(t, amount)
    \/ \E t \in Threads : Acquire(t)
    \/ \E t \in Threads : Load(t)
    \/ \E t \in Threads : Store(t)
    \/ \E t \in Threads : Report(t)

SpecProgress == InitProgress /\ [][NextProgress]_vars

---------------------------------------------------------------------------

(* Properties of create-backup *)

\* the key of the metadata object of the run at hand
RunMetadataKey == ArtifactKey(loc.s3_path, METADATA_FILENAME)

\* the keys that the run at hand has written so far
KeysPut == {trace[i].key : i \in {j \in 1..Len(trace) : trace[j].op = "put"}}

\* a create-backup run that passed eligibility and the probe has returned
BackupRunEnded == pc = "done" /\ ev.kind = "create-backup" /\ loc.backup_id # <<>>

\* C1 as stated: when a create-backup run that passed eligibility and the
\* probe has ended, the run has written backup_metadata.json under its prefix,
\* with success equal to whether archive-and-upload ended without an error.
C1_AsStated ==
    BackupRunEnded =>
        /\ RunMetadataKey \in KeysPut
        /\ store[RunMetadataKey].success = (loc.raised = "")

\* C1, amended: the metadata object is the last object the run writes; when
\* its upload succeeds it records success equal to whether archive-and-upload
\* ended without an error, and when its upload fails the run has written no
\* metadata object and the action fails with the metadata upload message.
C1_MetadataWritten ==
    BackupRunEnded =>
        IF loc.metadata_success
        THEN /\ RunMetadataKey \in KeysPut
             /\ store[RunMetadataKey].kind = "meta"
             /\ store[RunMetadataKey].success = (loc.raised = "")
             /\ trace[Len(trace) - 1] = Op("put", RunMetadataKey,
                                           IF loc.raised = "" THEN "true" ELSE "false")
        ELSE /\ RunMetadataKey \notin KeysPut
             /\ FailureMessage =
                    Msg("", "Failed to upload backup metadata to S3 for backup-id"
                            \o REFER_TO_DEBUG_LOG, loc.backup_id)

\* a run whose controller enumeration failed has written success = false
C1_Witness ==
    /\ BackupRunEnded
    /\ loc.raised = "RegionsNotAvailableError"
    /\ loc.metadata_success
    /\ RunMetadataKey \in KeysPut
    /\ ~store[RunMetadataKey].success

\* C3: from the failure of the controller enumeration on, the run has uploaded
\* no controller list and no archive, it writes no metadata with success =
\* true, and the action ends failed, without a result.
C3_EnumerationFailureAborts ==
    (ev.kind = "create-backup" /\ loc.raised = "RegionsNotAvailableError") =>
        /\ pc \in {"cb_meta", "done"}
        /\ \A f \in {CONTROLLER_LIST_FILENAME, IMAGE_TAR_FILENAME, PRESEED_TAR_FILENAME} :
              ArtifactKey(loc.s3_path, f) \notin KeysPut
        /\ Op("put", RunMetadataKey, "true") \notin Range(trace)
        /\ ev.failmsgs # <<>>
        /\ ev.results = <<>>

\* a run ended after its controller enumeration failed
C3_Witness ==
    /\ BackupRunEnded
    /\ loc.raised = "RegionsNotAvailableError"
    /\ Op("put", RunMetadataKey, "false") \in Range(trace)
    /\ ev.failmsgs # <<>>

\* the message that C10 expects of a unit that may not back up
IneligibleMessage ==
    IF ~leader THEN "Unit is not the leader"
    ELSE IF status.kind = "blocked" THEN "Unit is in a blocking state"
    ELSE IF ~s3rel
    THEN "Relation with s3-integrator charm missing, cannot create/restore backup."
    ELSE "Missing S3 parameters"

\* C10: create-backup on a unit that is not the leader, or is blocked, or has
\* incomplete storage settings ends at once, failed with the message of the
\* first of these, with the store and the unit status unchanged.
C10_IneligibleNoEffect ==
    [][(pc = "idle" /\ ev'.kind = "create-backup"
        /\ (~leader \/ status.kind = "blocked" \/ ~s3rel
            \/ ~(Range(RequiredParameters) \subseteq s3info)))
       => /\ pc' = "done"
          /\ store' = store
          /\ status' = status
          /\ trace' = <<>>
          /\ ev'.results = <<>>
          /\ FailureMessage'.text = IneligibleMessage]_vars

\* create-backup was refused on a blocked leader whose settings are complete
C10_Witness ==
    /\ pc = "done"
    /\ ev.kind = "create-backup"
    /\ leader
    /\ status.kind = "blocked"
    /\ s3rel
    /\ Range(RequiredParameters) \subseteq s3info
    /\ FailureMessage.text = "Unit is in a blocking state"
    /\ store = EmptyStore

---------------------------------------------------------------------------
(* Properties of the catalog *)

\* the names of the objects that the store holds directly under the prefix
\* of a backup
FilesUnder(backup_id) ==
    LET prefix == BackupS3Path(backup_id) \o <<"/">>
    IN {RemovePrefix(k, prefix) :
           k \in {x \in DOMAIN store : StartsWith(x, prefix)
                                        /\ Len(x) = Len(prefix) + 1}}

\* the metadata object of a backup is in the store and reports success
MetadataReportsSuccess(backup_id) ==
    LET k == ArtifactKey(BackupS3Path(backup_id), METADATA_FILENAME)
    IN k \in DOMAIN store /\ store[k].kind = "meta" /\ store[k].success

\* C2: each backup that list-backups reports is reported as finished exactly
\* when its metadata object, as read, reports success and the objects under
\* its prefix are the four expected ones and no other.
C2_CompletedIff ==
    (pc = "done" /\ ev.kind = "list-backups") =>
        \A row \in ev.table :
            (row.status = "finished") <=>
                /\ loc.readable
                /\ MetadataReportsSuccess(row.backup_id)
                /\ FilesUnder(row.backup_id) =
                      {<<"backup_metadata.json">>, <<"controllers.txt">>,
                       <<"image-storage.tar.gz">>, <<"preseeds.tar.gz">>}

\* a backup whose metadata reports success is listed as failed because an
\* archive is missing, next to one listed as finished
C2_Witness ==
    /\ pc = "done"
    /\ ev.kind = "list-backups"
    /\ \E row \in ev.table :
          /\ row.status = "failed"
          /\ loc.readable
          /\ MetadataReportsSuccess(row.backup_id)
          /\ IMAGE_TAR_FILENAME \notin FilesUnder(row.backup_id)
    /\ \E row \in ev.table : row.status = "finished"

---------------------------------------------------------------------------
(* Properties of restore-backup *)

\* the preconditions that C4 names
RestorePreconditions(bid, cid) ==
    /\ s3rel
    /\ Range(RequiredParameters) \subseteq s3info
    /\ bid # <<>>
    /\ cid # <<>>
    /\ status.kind # "blocked"
    /\ ~dbrel

\* the store holds objects under the prefix of the backup id
InStore(bid) == \E k \in DOMAIN store : StartsWith(k, BackupS3Path(bid) \o <<"/">>)

\* what C4 requires of a restore before it may have any effect
RestoreAllowed(bid, cid) == RestorePreconditions(bid, cid) /\ InStore(bid)

\* the positions of the download operations in a sequence of operations
Downloads(t) == {i \in 1..Len(t) : t[i].op \in {"head", "get"}}

\* C4: a step of restore-backup changes the controller-identity file, the
\* preseed or image directory or the unit status, or downloads an object,
\* only if the settings are complete, both parameters are non-empty, the unit
\* is not blocked, there is no maas-db relation and the store holds objects
\* of the backup id; and when all but the last hold and the listing of the
\* catalog has returned, the action fails with "Invalid backup-id: <id>".
C4_NoEffectUnlessAllowed ==
    [][(ev'.kind = "restore-backup") =>
         /\ (fsVars' # fsVars \/ status' # status \/ Downloads(trace') # {})
               => RestoreAllowed(loc'.backup_id, loc'.controller_id)
         /\ (/\ pc = "idle"
             /\ RestorePreconditions(loc'.backup_id, loc'.controller_id)
             /\ ~InStore(loc'.backup_id)
             /\ ev'.exc = ""
             /\ FailureMessage'.text # "Failed to retrieve backups list")
               => /\ FailureMessage' = Msg("", "Invalid backup-id", loc'.backup_id)
                  /\ pc' = "done"]_vars

\* a restore of an id that the store does not hold has failed, with no effect
C4_Witness ==
    /\ pc = "done"
    /\ ev.kind = "restore-backup"
    /\ FailureMessage = Msg("", "Invalid backup-id", BackupIdOf(1))
    /\ DOMAIN store # {}
    /\ rawpath = <<"/", "p", "/">>
    /\ idfile = <<"c0", "\n">>
    /\ preseeds = "old"
    /\ images = "old"
    /\ status = ActiveStatus
    /\ trace = <<>>

\* C6: the controller-identity step writes the file, with the target id and
\* a newline, exactly when the controller list was downloaded, the
\* maas-cluster relation exists, the number of ids in the list equals the
\* number of remote units plus one and the target id is in the list; in every
\* other case the file is unchanged and the step fails.
C6_ControllerIdFile ==
    [][pc = "r_controller" =>
         LET key == ArtifactKey(loc.s3_path, CONTROLLER_LIST_FILENAME)
             ids == IF key \in DOMAIN store THEN CharsOf(store[key].body) \ {"\n"} ELSE {}
             target == loc.controller_id
             fits == /\ Op("get", key, "ok") \in Range(trace')
                     /\ peers >= 0
                     /\ Cardinality(ids) = peers + 1
                     /\ Len(target) = 1
                     /\ target[1] \in ids
         IN IF fits
            THEN /\ idfile' = target \o <<"\n">>
                 /\ pc' = "r_preseeds"
            ELSE /\ idfile' = idfile
                 /\ pc' = "r_finish"
                 /\ FailureMessage'.text =
                       "Failed to update maas-region IDs from S3 backup." \o CHECK_LOG]_vars

\* the file was rewritten with the second id of a list of two, on a unit with
\* one peer
C6_Witness ==
    /\ pc = "r_preseeds"
    /\ peers = 1
    /\ loc.controller_id = <<"c2">>
    /\ idfile = <<"c2", "\n">>

RestoreOrder == <<"version", "controller", "preseeds", "images">>

\* C7: the steps that a restore has run are an initial part of version check,
\* controller identity, preseeds, images; all but the last of them succeeded;
\* after a failed step the restore only finishes; and the identity file and
\* the preseeds that succeeded steps wrote stay as written.
C7_StepOrder ==
    ev.kind = "restore-backup" =>
        LET steps == loc.steps
            n == Len(steps)
        IN /\ n <= 4
           /\ \A i \in 1..n : steps[i].step = RestoreOrder[i]
           /\ \A i \in 1..(n - 1) : steps[i].ok
           /\ (n > 0 /\ ~steps[n].ok) => pc \in {"r_finish", "done"}
           /\ (n >= 2 /\ steps[2].ok) => idfile = loc.controller_id \o <<"\n">>
           /\ (n >= 3 /\ steps[3].ok) => preseeds = "files"
           /\ (\E i \in 1..Len(trace) : trace[i].key = <<"image-storage">>)
                 => (n = 4 /\ steps[3].ok)
           /\ (\E i \in 1..Len(trace) : trace[i].key = <<"preseeds">>)
                 => (n >= 3 /\ steps[2].ok)

\* the restore ended at the failure of the preseeds: the identity file stays
\* rewritten and the images were not touched
C7_Witness ==
    /\ pc = "done"
    /\ ev.kind = "restore-backup"
    /\ Len(loc.steps) = 3
    /\ ~loc.steps[3].ok
    /\ idfile = <<"c1", "\n">>
    /\ preseeds = "empty"
    /\ images = "old"

\* C8: the result "restore finished" is set only by a restore whose four
\* steps all succeeded.
C8_FinishedOnlyOnSuccess ==
    (ev.kind = "restore-backup"
     /\ ev.results = <<[key |-> "restore-status", text |-> "restore finished",
                        arg |-> <<>>]>>)
        => /\ Len(loc.steps) = 4
           /\ \A i \in 1..4 : loc.steps[i].ok

\* the value of a string of digits
RECURSIVE DigitsValue(_)
DigitsValue(d) ==
    IF d = <<>> THEN 0
    ELSE 10 * DigitsValue(SubSeq(d, 1, Len(d) - 1)) + CharCode(d[Len(d)])

\* the version check that C5 describes
NumericallyAccepted(local, backup) ==
    /\ backup # NoVersion
    /\ local # NoVersion
    /\ local[1] = backup[1]
    /\ local[2] = backup[2]
    /\ DigitsValue(local[3]) >= DigitsValue(backup[3])

\* C5: once the metadata was downloaded, the version check succeeds exactly
\* when both versions exist, majors and minors are equal, and the installed
\* point release is, as a number, at least the recorded one.
C5_NumericVersionCheck ==
    (/\ ev.kind = "restore-backup"
     /\ Len(loc.steps) >= 1
     /\ Op("get", ArtifactKey(loc.s3_path, METADATA_FILENAME), "ok") \in Range(trace))
        => (loc.steps[1].ok <=>
               NumericallyAccepted(installed,
                   store[ArtifactKey(loc.s3_path, METADATA_FILENAME)].version))

---------------------------------------------------------------------------
(* Properties of create-backup, continued *)

\* the message of a failed probe
PROBE_FAILED == Msg("", "Failed to upload metadata to provided S3." \o REFER_TO_DEBUG_LOG, <<>>)

\* the run at hand is a create-backup whose probe failed
ProbeFailed == ev.kind = "create-backup" /\ PROBE_FAILED \in Range(ev.failmsgs)

\* C11: in a create-backup run the first operation is the write of the probe
\* object backup/latest: it precedes the backup id, the list of controllers,
\* every other write and the status "creating backup"; and a run whose probe
\* failed ends failed with the probe's message, has no result, has allocated
\* no id, has written nothing and has not set the status "creating backup".
C11_ProbeFirst ==
    ev.kind = "create-backup" =>
        /\ (loc.backup_id # <<>> \/ loc.regions # <<>> \/ trace # <<>>)
              => (trace # <<>> /\ trace[1] = Op("put", ContentKey(METADATA_PATH), ""))
        /\ ProbeFailed =>
              /\ pc = "done"
              /\ FailureMessage = PROBE_FAILED
              /\ ev.results = <<>>
              /\ loc.backup_id = <<>>
              /\ trace = <<>>
              /\ status # MaintenanceStatus("creating backup")

C11_Witness == pc = "done" /\ ProbeFailed /\ DOMAIN store = {}

\* the archive-and-upload step of the run at hand succeeded: nothing was
\* raised and the three artifacts were uploaded
ArchiveSucceeded ==
    /\ loc.raised = ""
    /\ \A f \in {CONTROLLER_LIST_FILENAME, IMAGE_TAR_FILENAME, PRESEED_TAR_FILENAME} :
          ArtifactKey(loc.s3_path, f) \in KeysPut

\* the result of a successful create-backup
BackupCreated == <<[key |-> "backups", text |-> "backup created with id", arg |-> loc.backup_id]>>

\* C12: when create-backup has ended, its result is "backup created with id
\* <id>" exactly when the archive-and-upload step succeeded and the metadata
\* object was written; otherwise it has no result and has failed; and a run
\* whose metadata write failed ends with "Failed to upload backup metadata to
\* S3 for backup-id <id>", whether or not the archive step succeeded.
C12_ResultIffBothSucceeded ==
    (pc = "done" /\ ev.kind = "create-backup") =>
        /\ ev.results = BackupCreated
              <=> (ArchiveSucceeded /\ RunMetadataKey \in KeysPut)
        /\ ev.results # BackupCreated => (ev.results = <<>> /\ ev.failmsgs # <<>>)
        /\ ev.results = BackupCreated => ev.failmsgs = <<>>
        /\ (loc.backup_id # <<>> /\ RunMetadataKey \notin KeysPut)
              => FailureMessage = Msg("", "Failed to upload backup metadata to S3 for backup-id"
                                          \o REFER_TO_DEBUG_LOG, loc.backup_id)

C12_Witness ==
    /\ pc = "done"
    /\ ev.kind = "create-backup"
    /\ ev.results = BackupCreated
    /\ ArchiveSucceeded
    /\ RunMetadataKey \in KeysPut

\* C13: when create-backup has ended failed, the message that the action
\* finally fails with is the message of the first failure of the run.
C13_FirstFailureSurfaced ==
    (pc = "done" /\ ev.kind = "create-backup" /\ ev.failmsgs # <<>>) =>
        /\ FailureMessage.text = ev.failmsgs[1].text
        /\ FailureMessage.arg = ev.failmsgs[1].arg

\* list-backups has ended with a table
Listed == pc = "done" /\ ev.kind = "list-backups" /\ ev.results # <<>>

\* the status values of the rows that the table has for a backup id
RowStatuses(id) == {r.status : r \in {x \in ev.table : x.backup_id = id}}

\* C14: when list-backups has ended with a table, every earlier create-backup
\* run that failed during controller enumeration or archive/upload has a row
\* with its backup id and status "failed", and no row of its id says
\* "finished".
C14_FailedRunListed ==
    Listed => \A i \in DOMAIN hist :
                 hist[i].failed => RowStatuses(hist[i].id) = {"failed"}

\* list-backups has ended, the settings being complete and the store having
\* answered every request with readable objects
ListedWithoutFault ==
    /\ pc = "done"
    /\ ev.kind = "list-backups"
    /\ AreBackupSettingsOk.ok
    /\ loc.readable
    /\ ev.exc # "ClientError"
    /\ Msg("", "Failed to list MAAS backups with error", <<>>) \notin Range(ev.failmsgs)

\* one create-backup run was started by an eligible unit, and it has ended
\* with all its uploads having succeeded
OneSuccessfulRun == nbk = 1 /\ Len(hist) = 1 /\ ~hist[1].failed /\ hist[1].recorded

\* C15: after one create-backup run on an empty bucket in which every store
\* operation succeeded, the bucket holds backup/latest and exactly the four
\* objects of the run under its backup/<id>/ prefix, and a list-backups that
\* follows reports exactly one row, of that id, with status "finished".
C15_HappyPath ==
    /\ OneSuccessfulRun =>
          DOMAIN store = {ContentKey(METADATA_PATH)} \cup
              {ArtifactKey(BackupS3Path(hist[1].id), f) :
                  f \in {METADATA_FILENAME, CONTROLLER_LIST_FILENAME,
                         IMAGE_TAR_FILENAME, PRESEED_TAR_FILENAME}}
    /\ (OneSuccessfulRun /\ ListedWithoutFault) =>
          /\ ev.results # <<>>
          /\ Cardinality(ev.table) = 1
          /\ RowStatuses(hist[1].id) = {"finished"}

\* C16: no exception escapes a create-backup, list-backups or restore-backup
\* handler: a handler that has ended has either succeeded or failed the
\* action with a message.
C16_NoExceptionEscapes ==
    ev.kind \in {"create-backup", "list-backups", "restore-backup"} => ev.exc = ""

---------------------------------------------------------------------------
(* Properties of restore-backup, continued *)

\* the messages of the data-integrity errors of a restore
IntegrityErrors ==
    {"is not a valid .tar.gz file or is corrupted.",
     "from S3 did not contain any files.",
     "Could not find object in",
     "The number of maas-region units does not match the expected value from the backup",
     "MAAS major version does not match backup major version",
     "MAAS minor version does not match backup minor version",
     "MAAS point version is not greater or equal to backup point version"}

\* the restore at hand has failed with a data-integrity error
IntegrityFailure ==
    /\ ev.kind = "restore-backup"
    /\ \E i \in DOMAIN ev.failmsgs : ev.failmsgs[i].text \in IntegrityErrors

StepsRun == {loc.steps[i].step : i \in DOMAIN loc.steps}
StepsSucceeded == {loc.steps[i].step : i \in {j \in DOMAIN loc.steps : loc.steps[j].ok}}

C18_LowSpaceBeforeRemoval ==
    ev.kind = "restore-backup" =>
        \A i \in DOMAIN trace :
           (trace[i].op = "fail" /\ trace[i].val = "Not enough free storage") =>
              ~\E j \in 1..(i - 1) : /\ trace[j].op = "rmtree"
                                    /\ trace[j].key = <<Pathname(trace[i].key)>>

---------------------------------------------------------------------------
(* Properties of the backup identity *)

\* C19: the create-backup runs of the leader have pairwise different backup
\* ids, and no step changes an object that is in the store under a
\* backup/<id>/ prefix.
C19_IndependentRuns ==
    /\ [](\A i, j \in DOMAIN hist : i # j => hist[i].id # hist[j].id)
    /\ [][\A k \in DOMAIN store :
             k # ContentKey(METADATA_PATH) => (k \in DOMAIN store' /\ store'[k] = store[k])]_vars

\* C20: the id of every create-backup run is the UTC time at which the run
\* was started, in the timestamp format, and of two runs the one started at
\* the later time does not have the id that is smaller in the order of strings.
C20_UtcIdentity ==
    /\ \A i \in DOMAIN hist : hist[i].id = BackupIdOf(hist[i].at)
    /\ \A i, j \in DOMAIN hist :
          hist[i].at < hist[j].at => ~StrLess(hist[j].id, hist[i].id)

---------------------------------------------------------------------------
(* Properties of the key layout and of the catalog, continued *)

\* the path that is configured, without the whitespace and slashes around it
ConfiguredPath == Strip(Strip(rawpath, WS), SLASH)

\* a key or prefix lies under the configured path
UnderPath(k) == ConfiguredPath = <<>> \/ StartsWith(k, ConfiguredPath \o <<"/">>)

\* C21: every key that a handler has written or downloaded lies under the
\* configured path, for every configured path; and when list-backups has
\* listed the store, so does every prefix that it (and the restore's
\* validation) lists, every key that it reads, and every key that the restore
\* of a listed backup id downloads.
C21_KeysUnderPath ==
    /\ \A i \in DOMAIN trace :
          trace[i].op \in {"put", "head", "get"} => UnderPath(trace[i].key)
    /\ (pc = "done" /\ ev.kind = "list-backups" /\ AreBackupSettingsOk.ok) =>
          /\ \A k \in ListBackupsKeys : UnderPath(k)
          /\ \A b \in ListedBackupIds : \A k \in RestoreKeys(b) : UnderPath(k)

C21_Witness ==
    /\ ConfiguredPath # <<>>
    /\ pc = "done"
    /\ ev.kind = "list-backups"
    /\ Cardinality(ListedBackupIds) = 2
    /\ Cardinality(DOMAIN store) > 4

\* C22: a list-backups step changes neither the store nor the identity file,
\* the preseeds, the images or the unit status; on any unit, leader or not,
\* whose settings are complete it ends with a table unless the store raised
\* an error; and the table it ended with is the table that every listing of
\* the same store gives, in whatever order the store returns the prefixes.
C22_ListReadOnly ==
    /\ [][(pc = "idle" /\ ev'.kind = "list-backups")
             => UNCHANGED <<store, fsVars, status, cfgVars>>]_vars
    /\ []((/\ pc = "done"
           /\ ev.kind = "list-backups"
           /\ AreBackupSettingsOk.ok
           /\ ev.exc = ""
           /\ Msg("", "Failed to list MAAS backups with error", <<>>) \notin Range(ev.failmsgs))
              => ev.results # <<>>)
    /\ [](Listed => /\ ev.table = BackupListRows(loc.readable)
                    /\ \A o \in Orders(ListedBackupIds) :
                          BackupList(o, loc.readable) = ev.rows)

C22_Witness == Listed /\ ~leader /\ Len(ev.rows) = 2

\* C23: the rows of the table that list-backups ended with are the rows of
\* the listed backups, one for each, in ascending order of the backup id.
C23_RowsSorted ==
    Listed =>
        /\ Range(ev.rows) = ev.table
        /\ Len(ev.rows) = Cardinality(ev.table)
        /\ \A i, j \in DOMAIN ev.rows :
              i < j => IdLess(ev.rows[i].backup_id, ev.rows[j].backup_id)

C23_Witness ==
    /\ Listed
    /\ Len(ev.rows) = 2
    /\ IdLess(ev.rows[1].backup_id, ev.rows[2].backup_id)
    /\ ev.rows[1].status # ev.rows[2].status

\* a path has a slash twice in a row
HasDuplicateSlash(path) == \E i \in 1..(Len(path) - 1) : path[i] = "/" /\ path[i + 1] = "/"

\* C24: when list-backups has retrieved the S3 parameters and the required
\* ones are present, the derived path has no whitespace around it, no slash
\* at its end (but for the root path "/") and no slash twice in a row, and no
\* parameter is reported missing; when a required parameter is absent, the
\* action has failed on the missing parameters, reported in the order bucket,
\* access-key, secret-key.
C24_ParametersNormalised ==
    (pc = "done" /\ ev.kind = "list-backups") =>
        IF Range(RequiredParameters) \subseteq s3info
        THEN /\ MissingRequiredParameters = <<>>
             /\ Strip(S3Path, WS) = S3Path
             /\ S3Path = <<"/">> \/ S3Path[Len(S3Path)] # "/"
             /\ ~HasDuplicateSlash(S3Path)
        ELSE /\ MissingRequiredParameters =
                   SelectSeq(RequiredParameters, LAMBDA q : q \notin s3info)
             /\ FailureMessage = Msg("", "Missing S3 parameters", MissingRequiredParameters)

\* the keys that the run at hand has written after the probe, in order
PutsAfterProbe ==
    LET puts == SelectSeq(trace, LAMBDA o : o.op = "put")
    IN [i \in 1..(Len(puts) - 1) |-> puts[i + 1].key]

\* the keys of the three artifacts, in the order of _backup_maas_to_s3
ArtifactOrder ==
    <<ArtifactKey(loc.s3_path, CONTROLLER_LIST_FILENAME),
      ArtifactKey(loc.s3_path, IMAGE_TAR_FILENAME),
      ArtifactKey(loc.s3_path, PRESEED_TAR_FILENAME)>>

\* C25: the objects that a create-backup run has written after the probe
\* are, in this order, controllers.txt, image-storage.tar.gz and
\* preseeds.tar.gz, up to the first upload that failed, and then possibly
\* backup_metadata.json; all three artifacts are written only if nothing
\* failed; one step writes at most one object; and a run that has ended has
\* attempted the metadata write whether or not an artifact upload failed.
C25_UploadOrder ==
    /\ [](ev.kind = "create-backup" =>
            \E n \in 0..3 :
               /\ PutsAfterProbe \in {SubSeq(ArtifactOrder, 1, n),
                                      Append(SubSeq(ArtifactOrder, 1, n), RunMetadataKey)}
               /\ loc.raised # "" => n < 3
               /\ (n < 3 /\ pc \in {"cb_meta", "done"} /\ loc.backup_id # <<>>)
                     => loc.raised # ""
               /\ RunMetadataKey \in Range(PutsAfterProbe) => pc = "done"
               /\ BackupRunEnded =>
                     \/ RunMetadataKey \in Range(PutsAfterProbe)
                     \/ FailureMessage =
                           Msg("", "Failed to upload backup metadata to S3 for backup-id"
                                   \o REFER_TO_DEBUG_LOG, loc.backup_id))
    /\ [][Cardinality(DOMAIN store' \ DOMAIN store) <= 1
          /\ Cardinality({k \in DOMAIN store : store'[k] # store[k]}) <= 1]_vars

C25_Witness ==
    /\ BackupRunEnded
    /\ loc.raised = "S3UploadFailedError"
    /\ PutsAfterProbe = <<ArtifactOrder[1], RunMetadataKey>>

\* C26: the prefix that list-backups and the validation of restore-backup
\* list is the prefix under which create-backup writes, so that when
\* list-backups has ended with a table, every create-backup run that wrote its
\* metadata has a row of its backup id, and its id is among the ids that
\* restore-backup accepts.
C26_ListedWhereWritten ==
    Listed =>
        /\ StartsWith(BackupS3Path(<<>>), ListPrefix)
        /\ \A i \in DOMAIN hist :
              hist[i].recorded =>
                 /\ hist[i].id \in {r.backup_id : r \in ev.table}
                 /\ hist[i].id \in ListedBackupIds

---------------------------------------------------------------------------
(* Properties of the restoration of one artifact *)

\* C27: when the removal of a destination directory has left the directory
\* in place, the restore has failed with "Filepath operation failed: Could
\* not remove existing <file type>" and has afterwards neither made a
\* directory nor downloaded nor extracted anything.
C27_RemovalFailureStops ==
    ev.kind = "restore-backup" =>
        \A i \in DOMAIN trace :
           (trace[i].op = "rmtree" /\ trace[i].val # "removed") =>
              /\ Msg("Filepath operation failed", "Could not remove existing", trace[i].key)
                    \in Range(ev.failmsgs)
              /\ \A j \in DOMAIN trace :
                    j > i => trace[j].op \notin {"rmtree", "mkdir", "head", "get", "extract"}

\* the file type, the archive and the directory of a step of artifact
\* restoration
FileTypeOf(step) == IF step = "preseeds" THEN "preseeds" ELSE "image-storage"
ArchiveOf(step) ==
    ArtifactKey(loc.s3_path,
                IF step = "preseeds" THEN PRESEED_TAR_FILENAME ELSE IMAGE_TAR_FILENAME)
DirOf(step) == IF step = "preseeds" THEN preseeds ELSE images

\* the messages with which the restoration of a file type has failed
UntarMessages(file_type) ==
    {m.text : m \in {x \in Range(ev.failmsgs) :
                        x.prefix = "Untar failed" /\ x.arg = <<file_type>>}}

\* what the operations of a failed step say went wrong, as a message
UntarCause(step) ==
    LET ft == FileTypeOf(step) IN
    IF \E r \in {"partial", "stuck"} : Op("rmtree", <<ft>>, r) \in Range(trace)
    THEN "Could not remove existing"
    ELSE IF Op("get", ArchiveOf(step), "ok") \notin Range(trace)
    THEN "Could not read from s3"
    ELSE IF Op("extract", <<ft>>, "TarError") \in Range(trace)
    THEN "is not a valid .tar.gz file or is corrupted."
    ELSE IF Op("extract", <<ft>>, "OSError") \in Range(trace)
    THEN "Filesystem error while extracting"
    ELSE "from S3 did not contain any files."

\* C28: a step of artifact restoration has succeeded exactly when the
\* archive was downloaded and extracted without error and the directory then
\* holds files; a step that succeeded has reported no restoration failure, and
\* a step that failed has reported exactly the message of what went wrong:
\* the object not read, no files extracted, a corrupt archive, or a
\* filesystem error (or the removal failure of C27), each a different one.
C28_SuccessIffExtracted ==
    ev.kind = "restore-backup" =>
        \A i \in DOMAIN loc.steps :
           loc.steps[i].step \in {"preseeds", "images"} =>
              LET s == loc.steps[i].step
                  ft == FileTypeOf(s)
              IN /\ loc.steps[i].ok <=>
                       /\ Op("get", ArchiveOf(s), "ok") \in Range(trace)
                       /\ Op("extract", <<ft>>, "ok") \in Range(trace)
                       /\ DirOf(s) = "files"
                 /\ loc.steps[i].ok => UntarMessages(ft) = {}
                 /\ ~loc.steps[i].ok => UntarMessages(ft) = {UntarCause(s)}

C28_Witness ==
    /\ pc = "done"
    /\ ev.kind = "restore-backup"
    /\ [step |-> "preseeds", ok |-> TRUE] \in Range(loc.steps)
    /\ [step |-> "images", ok |-> FALSE] \in Range(loc.steps)
    /\ UntarMessages("image-storage") = {"from S3 did not contain any files."}

\* C29: once a download of a restore has failed the action with "Not enough
\* free storage to download", the restore downloads nothing, extracts
\* nothing, writes nothing and runs no further step.
C29_LowSpaceStops ==
    ev.kind = "restore-backup" =>
        \A i \in DOMAIN trace :
           (trace[i].op = "fail" /\ trace[i].val = "Not enough free storage") =>
              \A j \in DOMAIN trace :
                 j > i => trace[j].op \notin {"head", "get", "extract", "write",
                                              "rmtree", "mkdir"}

\* C30: a restore changes the controller-identity file, the preseeds or the
\* images only from a backup that the catalog reports as completed.
C30_OnlyCompletedBackups ==
    (ev.kind = "restore-backup" /\ <<idfile, preseeds, images>> # loc.before)
        => GetBackupDetails(loc.backup_id, TRUE).completed

---------------------------------------------------------------------------
(* Properties of the download context *)

\* C31: the transient file of a download exists only while the caller's block
\* runs: whenever the download context is not between its entry and its exit,
\* on whatever path it was left, the file does not exist.
C31_TransientFileDeleted == download.tmp_path => pc = "dl_block"

---------------------------------------------------------------------------

(* Properties of the records of the catalog *)

\* C32: computing the record of a listed backup never fails, whatever objects
\* are absent or unreadable: when list-backups has listed the store, the record
\* of every listed id is computed without an exception; a metadata object that
\* is absent or cannot be read gives completed = false and an empty version,
\* and a controller list that is absent, empty or cannot be read gives no
\* controller ids.
C32_AbsenceTolerated ==
    (pc = "done" /\ ev.kind = "list-backups" /\ AreBackupSettingsOk.ok
        /\ ev.failmsgs = <<>> /\ ev.exc # "ClientError") =>
        \A b \in ListedBackupIds :
            LET r == GetBackupDetails(b, loc.readable)
                md == ReadContentFromS3(<<"backup", "/">> \o b \o <<"/">> \o METADATA_FILENAME,
                                        loc.readable)
                cl == ReadContentFromS3(<<"backup", "/">> \o b \o <<"/">>
                                            \o CONTROLLER_LIST_FILENAME, loc.readable)
            IN /\ r.exc = ""
               /\ md = <<>> => (~r.completed /\ r.maas_version = NoVersion)
               /\ (cl = <<>> \/ cl[1].body = <<>>) => r.controller_ids = <<>>

---------------------------------------------------------------------------
\* C33: the backup id that list-backups derives from a listed prefix
\* <path>/backup/<id>/ is the id under which the backup was written: when
\* list-backups has listed the store, the id cut out of every common prefix is
\* the part of the prefix between the listing prefix and the closing slash.
C33_IdentityPreserved ==
    (pc = "done" /\ ev.kind = "list-backups" /\ AreBackupSettingsOk.ok
        /\ ev.failmsgs = <<>> /\ ev.exc # "ClientError") =>
        \A cp \in CommonPrefixes(ListPrefix) :
            /\ RStrip(LStrip(cp, CharsOf(ListPrefix)), SLASH)
                  = SubSeq(cp, Len(ListPrefix) + 1, Len(cp) - 1)
            /\ \A k \in DOMAIN store :
                  StartsWith(k, cp) =>
                     StartsWith(k, BackupS3Path(RStrip(LStrip(cp, CharsOf(ListPrefix)), SLASH))
                                      \o <<"/">>)

\* the controller ids captured at backup time, each as a string
CapturedControllers == [i \in 1..Len(loc.regions) |-> <<loc.regions[i]>>]

\* _get_backup_details: the controller ids parsed from the content of a list
CatalogControllersOf(body) ==
    IF body # <<>> THEN Split(Strip(body, {"\n"}), "\n") ELSE <<>>

\* C34: the controller list round-trips: once a create-backup run has uploaded
\* controllers.txt, the list that restore-backup parses from the object, and
\* the list that the catalog parses from it, have the members and the number
\* of members of the set of ids that the run captured, the empty set included.
C34_ControllerListRoundTrip ==
    LET key == ArtifactKey(loc.s3_path, CONTROLLER_LIST_FILENAME) IN
    (ev.kind = "create-backup" /\ key \in KeysPut) =>
        /\ ControllersOf(store[key].body) = CapturedControllers
        /\ CatalogControllersOf(store[key].body) = CapturedControllers


(* Properties of the credentials events *)

\* the unit is blocked with the message of the S3 bucket failure
BlockedOnBucket == status = BlockedStatus(FAILED_TO_ACCESS_CREATE_BUCKET_ERROR_MESSAGE)

C36_OtherBlockKept ==
    [][(pc = "idle" /\ ev'.kind = "credentials-changed"
           /\ is_blocked /\ status.message \notin S3_BLOCK_MESSAGES)
          => status' = status]_vars

\* C37: credentials-gone sets the status to Active if and only if the unit is
\* blocked with the message of the S3 bucket failure, and leaves the status
\* unchanged in every other state.
C37_GoneClearsOnlyBucketBlock ==
    [][(pc = "idle" /\ ev'.kind = "credentials-gone") =>
          IF BlockedOnBucket THEN status' = ActiveStatus ELSE status' = status]_vars

\* credentials-gone has left in place a block that was set for another reason
C37_Witness ==
    /\ pc = "done"
    /\ ev.kind = "credentials-gone"
    /\ status = BlockedStatus("other")

---------------------------------------------------------------------------

(* Properties of the progress observer *)

\* C38: for a transfer of size S > 0 the observer emits a log line exactly
\* when the cumulative percentage has advanced at least UpdateInterval points
\* since the last logged percentage or has reached 100%
C38_LogExactlyOnAdvance ==
    [][\A t \in Threads :
          (progress.callers[t].pc = "stored" /\ progress'.callers[t].pc = "idle") =>
              (progress'.lines = progress.lines + 1 <=>
                  \/ (progress.seen_so_far - progress.logged_seen) * 100
                         >= UpdateInterval * progress.size
                  \/ progress.seen_so_far >= progress.size)]_vars

\* C39: a transfer of zero bytes has a single "100% (empty file)" line,
\* however many times the callback is invoked
C39_SingleEmptyLine == progress.size = 0 => progress.lines <= 1

\* C40: under any interleaving of the calls no update is lost: when no call
\* is in progress the cumulative count is the sum of the reported amounts,
\* and the last logged percentage never exceeds the percentage of the count
C40_NoLostUpdate ==
    /\ (\A t \in Threads : progress.callers[t].pc = "idle") =>
           progress.seen_so_far = progress.reported
    /\ IF progress.size > 0
       THEN GE(Percentage(progress.seen_so_far, progress.size),
               progress.last_percentage)
       ELSE progress.last_percentage = FZero

\* calls that overlapped have all returned, and a percentage has been logged
C40_Witness ==
    /\ \A t \in Threads : progress.callers[t].pc = "idle"
    /\ progress.overlapped
    /\ progress.size > 0
    /\ progress.calls > 1
    /\ progress.reported > 0
    /\ progress.last_percentage # FZero

---------------------------------------------------------------------------
(* Properties of two clusters on one bucket *)

\* C9: all objects of the store were written by units of one cluster.
C9_SingleWriter == Cardinality({store[k].by : k \in DOMAIN store}) <= 1

=============================================================================
